---- MODULE Spec2Model ----
(***************************************************************************)
(* Model of the PowerBook keyboard / ADB trackball to USB HID firmware.     *)
(*                                                                         *)
(* Arrays of 0/1 flags that the firmware indexes by cell or by scan code   *)
(* (RawSwitchPressed, KeyPressed) are held as the set of indices whose     *)
(* entry is 1.  uint8_t counters are kept modulo 2^8.                      *)
(***************************************************************************)
EXTENDS Integers, Sequences, FiniteSets, TLC

\* ------------------------------------------------------------------ bounds

\* Most switches that are physically closed at the same time.
MaxHeld == 3
\* Most column pins that noise may hold low at the same time (SpecPins).
MaxLow == 4
\* Most raw presses of a drawn raw matrix state (SpecGhost).
MaxRaw == 3
\* Most successful ADB polls between two mouse reports (SpecMouse).
MaxPolls == 3

\* --------------------------------------------------------- program constants

MATRIX_ROWS == 8
MATRIX_COLUMNS == 16
ROWS_PER_REPORT == 2
MAX_KEYS_PRESSED == 6
HID_KEYBOARD_SC_ERROR_ROLLOVER == 1
ACCUMULATED_MIN == -127
ACCUMULATED_MAX == 127

Rows == 0 .. (MATRIX_ROWS - 1)
Columns == 0 .. (MATRIX_COLUMNS - 1)

\* KeyboardMatrix[row][column], HID scan codes in decimal, 0 = no switch.
\* 227 = Left GUI, 57 = Caps Lock, 225 = Left Shift, 226 = Left Alt,
\* 224 = Left Control.
KeyboardMatrix ==
    << <<  0,  46,  34,  33,   0,   0,   0,   0,   0, 227,  57,  41, 225, 226, 224,  35>>,
       << 24, 158,  51,  15,  79,   7,  82,   0,  80, 227,  57,  42, 225, 226, 224,  52>>,
       <<  0,  18,  47,  49,   0,   0,   0,   0,   0, 227,  57,  32, 225, 226, 224,  38>>,
       <<  5,  55,  54,  13,   9,   0,  81,  22,   4, 227,  57,  11, 225, 226, 224,  56>>,
       << 40,   0,  19,  14,  21,   8,  26,  20,  43, 227,  57,  12, 225, 226, 224,  48>>,
       <<  0,  39,  28,  10,   0,   0,   0,   0,   0, 227,  57,  31, 225, 226, 224,  37>>,
       <<  0,  45,  23,  53,   0,   0,   0,   0,   0, 227,  57,  30, 225, 226, 224,  36>>,
       << 44,   0,  16,  17,  25,   6,  27,  29,   0, 227,  57,   0, 225, 226, 224,   0>> >>

\* The scan code of the switch at row r, column c (both 0-based).
ScanCodeAt(r, c) == KeyboardMatrix[r + 1][c + 1]

IS_GHOST_FREE_COLUMN(x) == (x = 9) \/ (x = 10) \/ (x = 12) \/ (x = 13) \/ (x = 14)

\* ------------------------------------------------------------------- state

VARIABLES
    closed,            \* cells whose switch is physically closed
    RawSwitchPressed,  \* cells whose RawSwitchPressed entry is 1
    TotalInRow,        \* uint8_t TotalInRow[MATRIX_ROWS]
    TotalInColumn,     \* uint8_t TotalInColumn[MATRIX_COLUMNS]
    RowHasGhost,       \* uint8_t RowHasGhost[MATRIX_ROWS]
    ColumnHasGhost,    \* uint8_t ColumnHasGhost[MATRIX_COLUMNS]
    KeyPressed,        \* scan codes whose KeyPressed entry is 1
    CurrentRow,        \* row being scanned, or next row to scan
    CurrentColumn,     \* loop variable of the column loop, 0 .. 16
    i,                 \* loop variable of the row loop of KeyboardScanMatrix
    scanpc,            \* KeyboardScanMatrix: "idle" (not running), "row" (line 251
                       \* next), "scan" (CurrentRow is driven low, line 258 next);
                       \* where the pin writes are single steps also "drive"
                       \* (line 256 next) and "release" (line 304 next)
    KeyboardReportData,\* USB_KeyboardReport_Data_t: Modifier, Reserved, KeyCode[6]
    USB_DeviceState,   \* "Configured" or "Unattached"
    AccumulatedX,      \* int16_t
    AccumulatedY,      \* int16_t
    Button1State,      \* uint8_t, 1 = pressed
    Button2State,      \* uint8_t, 1 = pressed
    MouseReportData,   \* USB_MouseReport_Data_t: Button, X, Y
    MouseIN,           \* the mouse IN endpoint bank: <<>> when free, else <<report>>
    mousepc,           \* Mouse_HID_Task: "poll" (line 338 next) or "emit" (line 341 next)
    polls,             \* ADB polls since the last mouse report
    callpc,            \* "none", or "drawn" / "done" around one call of a function
    KeyboardSuppressPolling, \* uint8_t, KeyboardMouse.c line 57
    KeyboardIN,        \* the keyboard IN endpoint bank: <<>> when free, else <<report>>
    kbdpc,             \* Keyboard_HID_Task: "entry" (line 239 next), "scanning"
                       \* (in KeyboardScanMatrix, then line 247 next), "send"
                       \* (line 298 next)
    scans,             \* calls of KeyboardScanMatrix since the last keyboard report
                       \* was written to the endpoint
    builds,            \* reports built since the last one was written to the endpoint
    adbpc,             \* ADBPollMouse: "idle" (not running), "command" (line 219
                       \* next), "read" (line 143 next), "waitlow" (line 153 next),
                       \* "waithigh" (line 161 next), "end" (line 224 next)
    interrupts,        \* the global interrupt enable flag, 1 = enabled
    DDRD1,             \* direction bit of the ADB pin (port D, pin 1), 1 = output
    PORTD1,            \* output latch / pull-up bit of the ADB pin
    adb_i,             \* uint8_t i of ADBRead16
    LowDuration,       \* uint16_t LowDuration[18], the entries written so far
    adb_valid,         \* uint8_t valid of ADBPollMouse
    adb_RegisterValue, \* uint16_t RegisterValue of ADBPollMouse
    elapsed,           \* microseconds of timer time since line 214 of this poll
    waits,             \* calls of ADBWait in this poll
    line,              \* how the ADB line behaves during this poll
    returned,          \* what the last call of ADBPollMouse returned, -1 before any
    RowDDR,            \* direction bit of each row pin, 1 = output
    RowPORT,           \* output latch / pull-up bit of each row pin
    sampled,           \* the cells this call of KeyboardScanMatrix sampled, in order
    lastRows,          \* the rows whose scans completed, the last MATRIX_ROWS of them
    pollsInCall,       \* calls of ADBPollMouse made by the current or the last call
                       \* of Mouse_HID_Task, -1 before any
    sentX,             \* sum of the X bytes of the mouse reports written so far
    sentY,             \* sum of the Y bytes of the mouse reports written so far
    polledX,           \* sum of the X deltas of the successful polls so far
    polledY,           \* sum of the Y deltas of the successful polls so far
    saturated,         \* TRUE once a poll was clamped at ACCUMULATED_MIN / _MAX
    successes,         \* successful polls so far
    LEDs,              \* the mask last given to LEDs_SetAllLEDs
    USB_ControlRequest,\* the SETUP packet waiting on the control endpoint:
                       \* bRequest ("none" when there is none) and wIndex
    usbpc,             \* EVENT_USB_Device_ControlRequest: "none" (not running) or
                       \* "wait" (in the loop of line 198)
    TCNT1,             \* the 16-bit counter of Timer1, 2 ticks per microsecond
    timerpc,           \* "idle"; "delay" (in the loop of DelayMicroseconds, Util.c
                       \* line 152 next) and "delayed" (it returned); "wait" (in
                       \* the loop of ADBWait, ADBMouse.c line 121 next) and
                       \* "waited" (it returned)
    delay_MicroSeconds,\* uint16_t MicroSeconds of DelayMicroseconds
    StartTime,         \* uint16_t StartTime of DelayMicroseconds and of ADBWait
    CurrentTime,       \* uint16_t CurrentTime of DelayMicroseconds
    DesiredCount,      \* uint16_t DesiredCount of DelayMicroseconds
    wait_Microseconds, \* uint16_t Microseconds of ADBWait
    wait_returned,     \* what ADBWait returned, -1 before it returns
    edgeAt,            \* the ticks after StartTime at which the ADB line takes the
                       \* desired state, -1 when it never does
    ticks,             \* timer ticks that passed since StartTime was read
    seenTicks          \* ticks at the last read of TCNT1 in the loop of ADBWait

matrixVars == <<RawSwitchPressed, TotalInRow, TotalInColumn, RowHasGhost,
                ColumnHasGhost, KeyPressed>>
scanVars == <<CurrentRow, CurrentColumn, i, scanpc>>
mouseVars == <<USB_DeviceState, AccumulatedX, AccumulatedY, Button1State,
               Button2State, MouseReportData, MouseIN, mousepc, polls>>
taskVars == <<KeyboardSuppressPolling, KeyboardIN, kbdpc, scans, builds>>
adbVars == <<adbpc, interrupts, DDRD1, PORTD1, adb_i, LowDuration, adb_valid, adb_RegisterValue,
             elapsed, waits, line, returned>>
pinVars == <<RowDDR, RowPORT>>
scanHist == <<sampled, lastRows>>
mouseHist == <<pollsInCall, sentX, sentY, polledX, polledY, saturated, successes>>
usbVars == <<LEDs, USB_ControlRequest, usbpc>>
timerVars == <<TCNT1, timerpc, delay_MicroSeconds, StartTime, CurrentTime, DesiredCount,
               wait_Microseconds, wait_returned, edgeAt, ticks, seenTicks>>
moreVars == <<scanHist, mouseHist, usbVars, timerVars>>
vars == <<closed, matrixVars, scanVars, KeyboardReportData, mouseVars, callpc,
          taskVars, adbVars, pinVars, moreVars>>

\* ------------------------------------------------------- ghost detection

\* Line 209: the switch at (r, c) is a corner key.
IsCorner_ThreeInColumn(raw, tir, tic, r, c) ==
    /\ <<r, c>> \in raw
    /\ tir[r] >= 2
    /\ tic[c] >= 3

IsCorner(raw, tir, tic, r, c) ==
    /\ <<r, c>> \in raw
    /\ tir[r] >= 2
    /\ tic[c] >= 2

\* The corner keys the two outer loops of CheckForGhosts find (ghost-free
\* columns are skipped).
Corners(raw, tir, tic) ==
    { k \in Rows \X Columns :
        /\ ~IS_GHOST_FREE_COLUMN(k[2])
        /\ IsCorner(raw, tir, tic, k[1], k[2]) }

\* CheckForGhosts: both tables are cleared, then every corner key flags the
\* rows pressed in its column and the columns (not ghost-free) pressed in its
\* row.  Flags are only ever set to 1 inside the loops, so the loop order
\* does not show in the result.
CheckForGhosts(raw, tir, tic) ==
    LET corners == Corners(raw, tir, tic)
    IN  [ row |-> [ ri \in Rows |->
                      IF \E k \in corners : <<ri, k[2]>> \in raw THEN 1 ELSE 0 ],
          col |-> [ j \in Columns |->
                      IF /\ ~IS_GHOST_FREE_COLUMN(j)
                         /\ \E k \in corners : <<k[1], j>> \in raw
                      THEN 1 ELSE 0 ] ]

\* ------------------------------------------------------------- the scanner

\* Lines 262-272.  ScanCode is read before it is assigned in the iteration:
\* stale holds whatever the variable holds there (uninitialised on the first
\* column of a call, the previous cell's scan code afterwards).
SwitchPressedOf(pin, stale) ==
    IF pin = 0 THEN 1
    ELSE IF stale # 0 THEN 0
    ELSE 0

\* Lines 277-278 and 284-285 on uint8_t counters.
Incremented(n) == (n + 1) % 256

Decremented_Unchanged(n) == n

Decremented(n) == (n + 255) % 256

\* Lines 295-296: whether the sample writes KeyPressed[ScanCode].
WritesKeyPressed_OnlyUnghosted(SwitchPressed, rowGhost, colGhost) ==
    rowGhost = 0 /\ colGhost = 0

WritesKeyPressed_Always(SwitchPressed, rowGhost, colGhost) == TRUE

WritesKeyPressed(SwitchPressed, rowGhost, colGhost) ==
    \/ SwitchPressed = 0
    \/ (rowGhost = 0 /\ colGhost = 0)

\* Lines 273-292: SwitchChanged.
SwitchChangedOf_PressOnly(wasPressed, SwitchPressed) ==
    ~wasPressed /\ SwitchPressed = 1

SwitchChangedOf(wasPressed, SwitchPressed) ==
    \/ (~wasPressed /\ SwitchPressed = 1)
    \/ (wasPressed /\ SwitchPressed = 0)

\* One iteration of the column loop (lines 262-299) at (CurrentRow,
\* CurrentColumn) with the column pin reading pin.
SampleColumn(pin, stale) ==
    LET r == CurrentRow
        c == CurrentColumn
        SwitchPressed == SwitchPressedOf(pin, stale)
        wasPressed == <<r, c>> \in RawSwitchPressed
        tir == IF ~wasPressed /\ SwitchPressed = 1
               THEN [TotalInRow EXCEPT ![r] = Incremented(@)]
               ELSE IF wasPressed /\ SwitchPressed = 0
               THEN [TotalInRow EXCEPT ![r] = Decremented(@)]
               ELSE TotalInRow
        tic == IF ~wasPressed /\ SwitchPressed = 1
               THEN [TotalInColumn EXCEPT ![c] = Incremented(@)]
               ELSE IF wasPressed /\ SwitchPressed = 0
               THEN [TotalInColumn EXCEPT ![c] = Decremented(@)]
               ELSE TotalInColumn
        raw == IF SwitchPressed = 1
               THEN RawSwitchPressed \cup {<<r, c>>}
               ELSE RawSwitchPressed \ {<<r, c>>}
        SwitchChanged == SwitchChangedOf(wasPressed, SwitchPressed)
        ghosts == IF SwitchChanged
                  THEN CheckForGhosts(raw, tir, tic)
                  ELSE [row |-> RowHasGhost, col |-> ColumnHasGhost]
        ScanCode == ScanCodeAt(r, c)
    IN  /\ RawSwitchPressed' = raw
        /\ TotalInRow' = tir
        /\ TotalInColumn' = tic
        /\ RowHasGhost' = ghosts.row
        /\ ColumnHasGhost' = ghosts.col
        /\ KeyPressed' =
              IF WritesKeyPressed(SwitchPressed, ghosts.row[r], ghosts.col[c])
              THEN IF SwitchPressed = 1
                   THEN KeyPressed \cup {ScanCode}
                   ELSE KeyPressed \ {ScanCode}
              ELSE KeyPressed

\* ------------------------------------------------- the matrix, electrically

\* The switches of the model's keyboard that are operated: the four corners
\* of one rectangle of the matrix, none in a ghost-free column, all wired.
\* 24 = U, 158 = Return, 5 = B, 55 = . and >
Switches == { <<1, 0>>, <<1, 1>>, <<3, 0>>, <<3, 1>> }

\* The rows pulled low while row r is driven low: r, and every row joined to
\* a low row by two closed switches of one column that has no diodes.
RECURSIVE LowRows(_, _)
LowRows(cl, low) ==
    LET more == { r2 \in Rows :
                    \E c \in Columns : \E r1 \in low :
                        /\ ~IS_GHOST_FREE_COLUMN(c)
                        /\ <<r1, c>> \in cl
                        /\ <<r2, c>> \in cl }
    IN  IF more \subseteq low THEN low ELSE LowRows(cl, low \cup more)

\* ReadPortPin of column c while row r is driven low: 0 (low) iff a closed
\* switch joins the column to a low row.
ReadColumnPin(cl, r, c) ==
    IF \E r1 \in LowRows(cl, {r}) : <<r1, c>> \in cl THEN 0 ELSE 1

\* --------------------------------------------------------------- actions

\* SetPortPinDirection on one pin (Util.c lines 18-72): output mode only sets
\* the direction bit; input mode clears it and sets the latch (pull-up).
SetPortPinDirection_InputOnly(ddr, port, IsOutput) ==
    IF IsOutput # 0 THEN [ddr |-> ddr, port |-> port] ELSE [ddr |-> 0, port |-> 1]

SetPortPinDirection_KeepsOutput(ddr, port, IsOutput) ==
    IF IsOutput # 0 THEN [ddr |-> 1, port |-> port] ELSE [ddr |-> ddr, port |-> 1]

SetPortPinDirection(ddr, port, IsOutput) ==
    IF IsOutput # 0 THEN [ddr |-> 1, port |-> port] ELSE [ddr |-> 0, port |-> 1]

\* WritePortPin on one pin (Util.c lines 79-109): the latch bit it leaves.
WritePortPin_High(port, Val) == 1

WritePortPin(port, Val) == IF Val # 0 THEN 1 ELSE 0

\* memset(&KeyboardReportData, 0, ...) and memset(&MouseReportData, 0, ...).
ZeroKeyboardReport == [Modifier |-> 0, Reserved |-> 0, KeyCode |-> <<0, 0, 0, 0, 0, 0>>]
ZeroMouseReport == [Button |-> 0, X |-> 0, Y |-> 0]
\* An endpoint bank holds no packet, or one: <<>> or <<report>>.
NoPacket == << >>
otherVars == <<KeyboardReportData, mouseVars, callpc, taskVars, adbVars, moreVars>>

TypeOK ==
    /\ closed \subseteq Switches
    /\ RawSwitchPressed \subseteq Rows \X Columns
    /\ TotalInRow \in [Rows -> 0 .. 255]
    /\ TotalInColumn \in [Columns -> 0 .. 255]
    /\ RowHasGhost \in [Rows -> {0, 1}]
    /\ ColumnHasGhost \in [Columns -> {0, 1}]
    /\ KeyPressed \subseteq 0 .. 255
    /\ CurrentRow \in Rows
    /\ CurrentColumn \in 0 .. MATRIX_COLUMNS
    /\ i \in 0 .. ROWS_PER_REPORT
    /\ scanpc \in {"idle", "row", "drive", "scan", "release"}
    /\ USB_DeviceState \in {"Unattached", "Configured"}
    /\ AccumulatedX \in -32768 .. 32767
    /\ AccumulatedY \in -32768 .. 32767
    /\ Button1State \in {0, 1}
    /\ Button2State \in {0, 1}
    /\ mousepc \in {"poll", "emit"}
    /\ callpc \in {"none", "drawn", "done"}

\* Static storage is zero-initialised.
InitMatrix ==
    /\ RawSwitchPressed = {}
    /\ TotalInRow = [r \in Rows |-> 0]
    /\ TotalInColumn = [c \in Columns |-> 0]
    /\ RowHasGhost = [r \in Rows |-> 0]
    /\ ColumnHasGhost = [c \in Columns |-> 0]
    /\ KeyPressed = {}

InitScan ==
    /\ CurrentRow = 0
    /\ CurrentColumn = 0
    /\ i = 0
    /\ scanpc = "idle"

InitMouse ==
    /\ USB_DeviceState = "Unattached"
    /\ AccumulatedX = 0
    /\ AccumulatedY = 0
    /\ Button1State = 0
    /\ Button2State = 0
    /\ MouseReportData = ZeroMouseReport
    /\ MouseIN = NoPacket
    /\ mousepc = "poll"
    /\ polls = 0

\* KeyboardSuppressPolling is static storage; no report was built or sent.
InitTask ==
    /\ KeyboardSuppressPolling = 0
    /\ KeyboardIN = NoPacket
    /\ kbdpc = "entry"
    /\ scans = 0
    /\ builds = 0

\* ADBMouseInit (lines 189-197) left the ADB pin an output driving high;
\* main enabled interrupts (KeyboardMouse.c line 67).
InitADB ==
    /\ adbpc = "idle"
    /\ interrupts = 1
    /\ DDRD1 = 1
    /\ PORTD1 = 1
    /\ adb_i = 0
    /\ LowDuration = << >>
    /\ adb_valid = 0
    /\ adb_RegisterValue = 0
    /\ elapsed = 0
    /\ waits = 0
    /\ line = [kind |-> "idle", value |-> 0]
    /\ returned = -1

\* KeyboardInit (KeyboardSwitchMatrix.c lines 167-170) made every row pin an
\* input with its pull-up enabled.
InitPins ==
    /\ RowDDR = [r \in Rows |-> 0]
    /\ RowPORT = [r \in Rows |-> 1]

\* Nothing was sampled, polled or reported yet.
InitHistory ==
    /\ sampled = << >>
    /\ lastRows = << >>
    /\ pollsInCall = -1
    /\ sentX = 0
    /\ sentY = 0
    /\ polledX = 0
    /\ polledY = 0
    /\ saturated = FALSE
    /\ successes = 0

\* The values Timer1 holds when a timed function is called: just after a
\* wrap, just before one (1, 6 and 510 ticks before), and mid-range.
StartValues == { 0, 65535, 65530, 65026, 32768 }

\* SetupHardware (KeyboardMouse.c lines 103-106) started Timer1; no timed
\* function runs.
InitTimer ==
    /\ TCNT1 \in { 0 }
    /\ timerpc = "idle"
    /\ delay_MicroSeconds = 0
    /\ StartTime = 0
    /\ CurrentTime = 0
    /\ DesiredCount = 0
    /\ wait_Microseconds = 0
    /\ wait_returned = -1
    /\ edgeAt = -1
    /\ ticks = 0
    /\ seenTicks = 0

\* No SETUP packet waits on the control endpoint.
NoRequest == [bRequest |-> "none", wIndex |-> 0]

\* main, KeyboardMouse.c line 66: LEDMASK_USB_NOTREADY; no request is pending.
InitUSB ==
    /\ LEDs = "LEDMASK_USB_NOTREADY"
    /\ USB_ControlRequest = NoRequest
    /\ usbpc = "none"
    /\ InitTimer

Init ==
    /\ closed = {}
    /\ InitMatrix
    /\ InitScan
    /\ KeyboardReportData = ZeroKeyboardReport
    /\ InitMouse
    /\ callpc = "none"
    /\ InitTask
    /\ InitADB
    /\ InitPins
    /\ InitHistory
    /\ InitUSB

\* A key goes down.
Press(k) ==
    /\ k \notin closed
    /\ Cardinality(closed) < MaxHeld
    /\ closed' = closed \cup {k}
    /\ UNCHANGED <<matrixVars, scanVars, pinVars, otherVars>>

\* A key goes up.
Release(k) ==
    /\ k \in closed
    /\ closed' = closed \ {k}
    /\ UNCHANGED <<matrixVars, scanVars, pinVars, otherVars>>

\* Keyboard_HID_Task, line 244: KeyboardScanMatrix() is called.
KeyboardScanMatrixCall ==
    /\ scanpc = "idle"
    /\ i' = 0
    /\ scanpc' = "row"
    /\ UNCHANGED <<closed, pinVars, matrixVars, CurrentRow, CurrentColumn, otherVars>>

\* Lines 251-257: the next row is activated by driving it low.
RowBegin ==
    /\ scanpc = "row"
    /\ i < ROWS_PER_REPORT
    /\ scanpc' = "scan"
    /\ CurrentColumn' = 0
    /\ LET out == SetPortPinDirection(RowDDR[CurrentRow], RowPORT[CurrentRow], 1)
       IN  /\ RowDDR' = [RowDDR EXCEPT ![CurrentRow] = out.ddr]
           /\ RowPORT' = [RowPORT EXCEPT ![CurrentRow] = WritePortPin(out.port, 0)]
    /\ UNCHANGED <<closed, matrixVars, CurrentRow, i, otherVars>>

\* Line 251: ROWS_PER_REPORT rows were scanned, KeyboardScanMatrix returns.
KeyboardScanMatrixReturn ==
    /\ scanpc = "row"
    /\ i >= ROWS_PER_REPORT
    /\ scanpc' = "idle"
    /\ UNCHANGED <<closed, pinVars, matrixVars, CurrentRow, CurrentColumn, i, otherVars>>

\* The scan codes ScanCode may hold when line 268 reads it.
StaleScanCodes == {0, 1}

\* Lines 258-300: one column of the driven row is sampled.
ScanColumn ==
    /\ scanpc = "scan"
    /\ CurrentColumn < MATRIX_COLUMNS
    /\ \E stale \in StaleScanCodes :
          SampleColumn(ReadColumnPin(closed, CurrentRow, CurrentColumn), stale)
    /\ CurrentColumn' = CurrentColumn + 1
    /\ UNCHANGED <<closed, pinVars, CurrentRow, i, scanpc, otherVars>>

\* Lines 301-310: the row is deactivated and CurrentRow advances.
NextRow_SkipsOne(r) == IF r + 2 >= MATRIX_ROWS THEN r + 2 - MATRIX_ROWS ELSE r + 2

NextRow(r) == IF r + 1 >= MATRIX_ROWS THEN 0 ELSE r + 1

RowEnd ==
    /\ scanpc = "scan"
    /\ CurrentColumn = MATRIX_COLUMNS
    /\ CurrentRow' = NextRow(CurrentRow)
    /\ i' = i + 1
    /\ scanpc' = "row"
    /\ LET in == SetPortPinDirection(RowDDR[CurrentRow],
                                     WritePortPin(RowPORT[CurrentRow], 1), 0)
       IN  /\ RowDDR' = [RowDDR EXCEPT ![CurrentRow] = in.ddr]
           /\ RowPORT' = [RowPORT EXCEPT ![CurrentRow] = in.port]
    /\ UNCHANGED <<closed, matrixVars, CurrentColumn, otherVars>>

Next ==
    \/ \E k \in Switches : Press(k)
    \/ \E k \in Switches : Release(k)
    \/ KeyboardScanMatrixCall
    \/ RowBegin
    \/ ScanColumn
    \/ RowEnd
    \/ KeyboardScanMatrixReturn

Spec == Init /\ [][Next]_vars

\* ------------------------------------------------ any column pin readings

\* The cells whose column pin may read low whatever the switches do: two
\* rows of two columns without diodes (cell (0,0) has no switch) and of one
\* ghost-free column (Left Shift, one scan code in both rows).
PinCells == { <<0, 0>>, <<0, 1>>, <<1, 0>>, <<1, 1>>, <<0, 12>>, <<1, 12>> }

\* Lines 258-300 with the pin reading anything.
ScanColumnAnyPin ==
    /\ scanpc = "scan"
    /\ CurrentColumn < MATRIX_COLUMNS
    /\ \E pin \in {0, 1} : \E stale \in StaleScanCodes :
          /\ pin = 0 =>
                /\ <<CurrentRow, CurrentColumn>> \in PinCells
                /\ \/ <<CurrentRow, CurrentColumn>> \in RawSwitchPressed
                   \/ Cardinality(RawSwitchPressed) < MaxLow
          /\ SampleColumn(pin, stale)
    /\ CurrentColumn' = CurrentColumn + 1
    /\ UNCHANGED <<closed, pinVars, CurrentRow, i, scanpc, otherVars>>

NextPins ==
    \/ KeyboardScanMatrixCall
    \/ RowBegin
    \/ ScanColumnAnyPin
    \/ RowEnd
    \/ KeyboardScanMatrixReturn

SpecPins == Init /\ [][NextPins]_vars

\* ------------------------------------------- CheckForGhosts on its own

\* The cells of the drawn raw states: three rows of two columns without
\* diodes and two ghost-free columns (Left GUI, Left Shift).
GhostCells == { 0, 1, 2 } \X { 1, 2, 9, 12 }

RowCount(raw) == [ r \in Rows |-> Cardinality({ c \in Columns : <<r, c>> \in raw }) ]
ColumnCount(raw) == [ c \in Columns |-> Cardinality({ r \in Rows : <<r, c>> \in raw }) ]

\* A raw state as the scanner leaves it: the counters are the counts.
InitGhost ==
    /\ closed = {}
    /\ RawSwitchPressed \in { raw \in SUBSET GhostCells : Cardinality(raw) <= MaxRaw }
    /\ TotalInRow = RowCount(RawSwitchPressed)
    /\ TotalInColumn = ColumnCount(RawSwitchPressed)
    /\ RowHasGhost = [r \in Rows |-> 0]
    /\ ColumnHasGhost = [c \in Columns |-> 0]
    /\ KeyPressed = {}
    /\ InitScan
    /\ KeyboardReportData = ZeroKeyboardReport
    /\ InitMouse
    /\ callpc = "drawn"
    /\ InitTask
    /\ InitADB
    /\ InitPins
    /\ InitHistory
    /\ InitUSB

\* Line 292: CheckForGhosts().
CallCheckForGhosts ==
    /\ callpc = "drawn"
    /\ LET ghosts == CheckForGhosts(RawSwitchPressed, TotalInRow, TotalInColumn)
       IN  /\ RowHasGhost' = ghosts.row
           /\ ColumnHasGhost' = ghosts.col
    /\ callpc' = "done"
    /\ UNCHANGED <<closed, pinVars, moreVars, RawSwitchPressed, TotalInRow, TotalInColumn, KeyPressed,
                   scanVars, KeyboardReportData, mouseVars, taskVars, adbVars>>

SpecGhost == InitGhost /\ [][CallCheckForGhosts]_vars

\* ------------------------------------------------- the keyboard report

IsModifier(ScanCode) == ScanCode \in 224 .. 231

\* Lines 255-270: the HID_KEYBOARD_MODIFIER_ bit of a modifier scan code
\* (Left Control 224 -> 1, Left Shift 225 -> 2, ..., Right GUI 231 -> 128).
ModifierBit_LeftControl(ScanCode) == 1

ModifierBit(ScanCode) == 2 ^ (ScanCode - 224)

\* m |= bit, for bit a power of two.
BitOr(m, bit) == IF (m \div bit) % 2 = 1 THEN m ELSE m + bit

\* Lines 283-286.
RolloverFill_FiveSlots(KeyCode) ==
    [ slot \in 1 .. 6 |->
        IF slot < 6 THEN HID_KEYBOARD_SC_ERROR_ROLLOVER ELSE KeyCode[slot] ]

RolloverFill(KeyCode) == [ slot \in 1 .. 6 |-> HID_KEYBOARD_SC_ERROR_ROLLOVER ]

\* Lines 248-291: the loop over scan codes from ScanCode on; the rollover
\* branch ends it (break).  An iteration whose KeyPressed[ScanCode] is 0
\* does nothing, so the loop is followed from one marked scan code to the
\* next.
RECURSIVE BuildFrom(_, _, _, _)
BuildFrom(kp, ScanCode, report, UsedKeyCodes) ==
    LET left == { s \in kp : s >= ScanCode /\ s < 256 }
    IN  IF left = {} THEN report
        ELSE LET sc == CHOOSE s \in left : \A t \in left : s <= t
             IN  IF IsModifier(sc)
                 THEN BuildFrom(kp, sc + 1,
                                [report EXCEPT !.Modifier = BitOr(@, ModifierBit(sc))],
                                UsedKeyCodes)
                 ELSE IF UsedKeyCodes < MAX_KEYS_PRESSED
                 THEN BuildFrom(kp, sc + 1,
                                [report EXCEPT !.KeyCode[UsedKeyCodes + 1] = sc],
                                UsedKeyCodes + 1)
                 ELSE [report EXCEPT !.KeyCode = RolloverFill(@)]

\* Lines 247-291.
BuildKeyboardReport(kp) == BuildFrom(kp, 1, ZeroKeyboardReport, 0)

\* Keys of the drawn states: eight keys in eight rows and eight columns
\* without diodes, and two modifier keys, wired to every row.
\* = (0,1), U (1,0), [ (2,2), J (3,3), R (4,4), 2 (5,11), 7 (6,15), C (7,5).
LetterCells == { <<0, 1>>, <<1, 0>>, <<2, 2>>, <<3, 3>>, <<4, 4>>, <<5, 11>>,
                 <<6, 15>>, <<7, 5>> }
ModifierColumns == { 12, 14 }
ReportKeys == { {k} : k \in LetterCells } \cup { Rows \X {c} : c \in ModifierColumns }

\* The state after the keys of a drawn set were held through a whole sweep.
InitReport ==
    /\ closed = {}
    /\ \E held \in SUBSET ReportKeys :
          /\ RawSwitchPressed = UNION held
          /\ KeyPressed = { ScanCodeAt(k[1], k[2]) : k \in UNION held }
    /\ TotalInRow = RowCount(RawSwitchPressed)
    /\ TotalInColumn = ColumnCount(RawSwitchPressed)
    /\ RowHasGhost = CheckForGhosts(RawSwitchPressed, TotalInRow, TotalInColumn).row
    /\ ColumnHasGhost = CheckForGhosts(RawSwitchPressed, TotalInRow, TotalInColumn).col
    /\ InitScan
    /\ KeyboardReportData = ZeroKeyboardReport
    /\ InitMouse
    /\ callpc = "drawn"
    /\ InitTask
    /\ InitADB
    /\ InitPins
    /\ InitHistory
    /\ InitUSB

\* Keyboard_HID_Task, lines 246-291: the report is built from KeyPressed.
CallBuildKeyboardReport ==
    /\ callpc = "drawn"
    /\ KeyboardReportData' = BuildKeyboardReport(KeyPressed)
    /\ callpc' = "done"
    /\ UNCHANGED <<closed, pinVars, moreVars, matrixVars, scanVars, mouseVars, taskVars, adbVars>>

SpecReport == InitReport /\ [][CallBuildKeyboardReport]_vars

\* --------------------------------------------------------------- the mouse

Int16(v) == ((v + 32768) % 65536) - 32768
Int8(v) == ((v + 128) % 256) - 128

\* The register values the trackball answers with (bit 15: button 1, bits
\* 14..8: Y, bit 7: button 2, bits 6..0: X):
\* 0x0000, 0x8080, 0x8003, 0x807E, 0x3F3F (+63, +63), 0xC0C0 (-64, -64),
\* 0x3FC0 (Y +63, X -64), 0x403F (Y -64, X +63).
RegisterValues == { 0, 32896, 32771, 32894, 16191, 49344, 16320, 16447 }

\* Lines 244-257 for one accumulator and its 7-bit field.
Accumulate_NoClamp(acc, field) ==
    IF field < 64 THEN Int16(acc + field) ELSE Int16(acc + field - 128)

Accumulate_SignAt65(acc, field) ==
    IF field < 65
    THEN LET a == Int16(acc + field)
         IN  IF a > ACCUMULATED_MAX THEN ACCUMULATED_MAX ELSE a
    ELSE LET a == Int16(acc + (field - 128))
         IN  IF a < ACCUMULATED_MIN THEN ACCUMULATED_MIN ELSE a

Accumulate(acc, field) ==
    IF field < 64
    THEN LET a == Int16(acc + field)
         IN  IF a > ACCUMULATED_MAX THEN ACCUMULATED_MAX ELSE a
    ELSE LET a == Int16(acc + (field - 128))
         IN  IF a < ACCUMULATED_MIN THEN ACCUMULATED_MIN ELSE a

\* Lines 225-272: the register value is parsed (valid = 1) or nothing is
\* done (valid = 0, the read timed out).
\* Lines 229-240 for one button: the state is cleared, then set when the
\* bit of the button (mask 0x8000 or 0x0080) is 0.
NewButtonState_Sticky(old, RegisterValue, mask) ==
    IF (RegisterValue \div mask) % 2 = 0 THEN 1 ELSE old

NewButtonState(old, RegisterValue, mask) ==
    IF (RegisterValue \div mask) % 2 = 0 THEN 1 ELSE 0

ParseRegister_Always(valid, RegisterValue) ==
    /\ Button1State' = NewButtonState(Button1State, RegisterValue, 32768)
    /\ Button2State' = NewButtonState(Button2State, RegisterValue, 128)
    /\ AccumulatedX' = Accumulate(AccumulatedX, RegisterValue % 128)
    /\ AccumulatedY' = Accumulate(AccumulatedY, (RegisterValue \div 256) % 128)

ParseRegister(valid, RegisterValue) ==
    IF valid = 1
    THEN /\ Button1State' = NewButtonState(Button1State, RegisterValue, 32768)
         /\ Button2State' = NewButtonState(Button2State, RegisterValue, 128)
         /\ AccumulatedX' = Accumulate(AccumulatedX, RegisterValue % 128)
         /\ AccumulatedY' = Accumulate(AccumulatedY, (RegisterValue \div 256) % 128)
    ELSE UNCHANGED <<AccumulatedX, AccumulatedY, Button1State, Button2State>>

\* Mouse_HID_Task, lines 333-338: return when not configured, else
\* ADBPollMouse().
MousePoll ==
    /\ mousepc = "poll"
    /\ IF USB_DeviceState # "Configured"
       THEN UNCHANGED mouseVars
       ELSE /\ \E valid \in {0, 1} : \E RegisterValue \in RegisterValues :
                  /\ valid = 1 => polls < MaxPolls
                  /\ ParseRegister(valid, RegisterValue)
                  /\ polls' = polls + valid
            /\ mousepc' = "emit"
            /\ UNCHANGED <<USB_DeviceState, MouseReportData, MouseIN>>
    /\ UNCHANGED <<closed, pinVars, moreVars, matrixVars, scanVars, KeyboardReportData, callpc,
                   taskVars, adbVars>>

\* Lines 353-354.
ZeroedAccumulator_Kept(acc) == acc

ZeroedAccumulator(acc) == 0

\* Mouse_HID_Task, lines 341-361: when the IN endpoint bank is free the
\* report is built, the accumulators are zeroed and the report is sent.
MouseEmit ==
    /\ mousepc = "emit"
    /\ IF MouseIN = NoPacket
       THEN /\ MouseReportData' = [ Button |-> Button1State + 2 * Button2State,
                                    X |-> Int8(AccumulatedX),
                                    Y |-> Int8(AccumulatedY) ]
            /\ AccumulatedX' = ZeroedAccumulator(AccumulatedX)
            /\ AccumulatedY' = ZeroedAccumulator(AccumulatedY)
            /\ MouseIN' = <<MouseReportData'>>
            /\ polls' = 0
       ELSE UNCHANGED <<MouseReportData, AccumulatedX, AccumulatedY, MouseIN, polls>>
    /\ mousepc' = "poll"
    /\ UNCHANGED <<USB_DeviceState, Button1State, Button2State>>
    /\ UNCHANGED <<closed, pinVars, moreVars, matrixVars, scanVars, KeyboardReportData, callpc,
                   taskVars, adbVars>>

\* The host takes the packet of the mouse IN endpoint.
HostTakesMouseIN ==
    /\ MouseIN # NoPacket
    /\ MouseIN' = NoPacket
    /\ UNCHANGED <<USB_DeviceState, AccumulatedX, AccumulatedY, Button1State,
                   Button2State, MouseReportData, mousepc, polls>>
    /\ UNCHANGED <<closed, pinVars, moreVars, matrixVars, scanVars, KeyboardReportData, callpc,
                   taskVars, adbVars>>

\* The host configures the device, or the device is detached.
SetDeviceState(st) ==
    /\ USB_DeviceState # st
    /\ USB_DeviceState' = st
    /\ UNCHANGED <<AccumulatedX, AccumulatedY, Button1State, Button2State,
                   MouseReportData, MouseIN, mousepc, polls>>
    /\ UNCHANGED <<closed, pinVars, moreVars, matrixVars, scanVars, KeyboardReportData, callpc,
                   taskVars, adbVars>>

NextMouse ==
    \/ MousePoll
    \/ MouseEmit
    \/ HostTakesMouseIN
    \/ \E st \in {"Unattached", "Configured"} : SetDeviceState(st)

SpecMouse == Init /\ [][NextMouse]_vars

\* ------------------------------------------------------ Keyboard_HID_Task

\* Most calls of KeyboardScanMatrix, and most built reports, that are counted
\* between two writes of the keyboard report to its endpoint.
MaxCount == 3

Counted(n) == IF n < MaxCount THEN n + 1 ELSE n

\* KeyboardMouse.c line 294: KeyboardSuppressPolling = 1.
SuppressAfterBuild_Kept(suppress) == suppress

SuppressAfterBuild(suppress) == 1

\* KeyboardMouse.c line 304: KeyboardSuppressPolling = 0.
SuppressAfterSend(suppress) == 0

\* Lines 239-244: the task returns when the device is not configured; it
\* calls KeyboardScanMatrix() when polling is not suppressed, and goes on to
\* line 298 when it is.
TaskEntry ==
    /\ kbdpc = "entry"
    /\ scanpc = "idle"
    /\ IF USB_DeviceState # "Configured"
       THEN UNCHANGED <<scanVars, taskVars>>
       ELSE IF KeyboardSuppressPolling = 0
       THEN /\ i' = 0
            /\ scanpc' = "row"
            /\ kbdpc' = "scanning"
            /\ scans' = Counted(scans)
            /\ UNCHANGED <<CurrentRow, CurrentColumn, KeyboardSuppressPolling,
                           KeyboardIN, builds>>
       ELSE /\ kbdpc' = "send"
            /\ UNCHANGED <<scanVars, KeyboardSuppressPolling, KeyboardIN, scans, builds>>
    /\ UNCHANGED <<closed, pinVars, moreVars, matrixVars, KeyboardReportData, mouseVars, callpc, adbVars>>

\* Lines 246-294, after KeyboardScanMatrix() returned: the report is built
\* from KeyPressed and polling is suppressed.
TaskBuild ==
    /\ kbdpc = "scanning"
    /\ scanpc = "idle"
    /\ KeyboardReportData' = BuildKeyboardReport(KeyPressed)
    /\ KeyboardSuppressPolling' = SuppressAfterBuild(KeyboardSuppressPolling)
    /\ builds' = Counted(builds)
    /\ kbdpc' = "send"
    /\ UNCHANGED <<closed, pinVars, moreVars, matrixVars, scanVars, mouseVars, callpc, KeyboardIN, scans,
                   adbVars>>

\* Lines 297-325: when the keyboard IN endpoint is writable, polling is
\* resumed and the report is written and sent.  Keyboard_ProcessLEDReport
\* (lines 220-226) does nothing, so the OUT endpoint leaves no trace.
TaskSend ==
    /\ kbdpc = "send"
    /\ IF KeyboardIN = NoPacket
       THEN /\ KeyboardSuppressPolling' = SuppressAfterSend(KeyboardSuppressPolling)
            /\ KeyboardIN' = <<KeyboardReportData>>
            /\ scans' = 0
            /\ builds' = 0
       ELSE UNCHANGED <<KeyboardSuppressPolling, KeyboardIN, scans, builds>>
    /\ kbdpc' = "entry"
    /\ UNCHANGED <<closed, pinVars, moreVars, matrixVars, scanVars, KeyboardReportData, mouseVars, callpc,
                   adbVars>>

\* The host takes the packet of the keyboard IN endpoint.
HostTakesKeyboardIN ==
    /\ KeyboardIN # NoPacket
    /\ KeyboardIN' = NoPacket
    /\ UNCHANGED <<closed, pinVars, moreVars, matrixVars, scanVars, KeyboardReportData, mouseVars, callpc,
                   KeyboardSuppressPolling, kbdpc, scans, builds, adbVars>>

\* EVENT_USB_Device_ControlRequest, HID_REQ_GetReport (lines 163-186), run
\* by USB_USBTask between two calls of the task: the report of the asked
\* interface goes out on the control endpoint and its buffer is cleared.
GetReportBetween(wIndex) ==
    /\ kbdpc = "entry"
    /\ USB_DeviceState = "Configured"
    /\ IF wIndex = 0
       THEN /\ KeyboardReportData' = ZeroKeyboardReport
            /\ UNCHANGED MouseReportData
       ELSE /\ MouseReportData' = ZeroMouseReport
            /\ UNCHANGED KeyboardReportData
    /\ UNCHANGED <<closed, pinVars, moreVars, matrixVars, scanVars, callpc, taskVars, adbVars,
                   USB_DeviceState, AccumulatedX, AccumulatedY, Button1State,
                   Button2State, MouseIN, mousepc, polls>>

\* The switches operated while the task runs: U, Return and B, an L-shape.
TaskSwitches == { <<1, 0>>, <<1, 1>>, <<3, 0>> }

\* Keys go down and up between two calls of the task.
PressBetween(k) == kbdpc = "entry" /\ Press(k)
ReleaseBetween(k) == kbdpc = "entry" /\ Release(k)

NextTask ==
    \/ TaskEntry
    \/ RowBegin
    \/ ScanColumn
    \/ RowEnd
    \/ KeyboardScanMatrixReturn
    \/ TaskBuild
    \/ TaskSend
    \/ HostTakesKeyboardIN
    \/ \E st \in {"Unattached", "Configured"} : SetDeviceState(st)
    \/ \E wIndex \in {0, 1} : GetReportBetween(wIndex)
    \/ \E k \in TaskSwitches : PressBetween(k)
    \/ \E k \in TaskSwitches : ReleaseBetween(k)

SpecTask == Init /\ [][NextTask]_vars

\* ------------------------------------------------------ the ADB exchange

ADB_TIMEOUT == 255
ADB_THRESHOLD == 50

\* ADBRead16 measures 18 bit cells (line 150) and keeps 16 data bits (line 174).
ADBCells == 18
ADBDataBits == 16

\* Line 214 and line 224: the global interrupt enable flag they leave.
GlobalInterruptDisable_Not(flag) == flag

GlobalInterruptDisable(flag) == 0

GlobalInterruptEnable(flag) == 1

\* Timer time of ADBWriteCommand (lines 89-104): attention, sync, eight
\* command bit cells of 100 us, the stop bit.
CommandMicroseconds == 800 + 70 + 8 * (35 + 65) + (65 + 35)

\* Timer time of line 147.
StopToStartMicroseconds == 100

\* An edge that never comes.
Never == 65535

\* ADBWait (lines 115-128) when the line reaches DesiredLineState t
\* microseconds after the call: the time measured, or ADB_TIMEOUT.
ADBWait_NoTimeout(t) == t

ADBWait(t) == IF t >= ADB_TIMEOUT THEN ADB_TIMEOUT ELSE t

\* Line 150: the loop condition fails.
ReadLoopDone_NineteenCells(n) == n >= 19

ReadLoopDone(n) == n >= ADBCells

\* Lines 173-180: bit 15 - k of the register value is 1 iff LowDuration[k + 1]
\* is below the threshold (ld is 1-based, so that is ld[k + 2]).
IsOneBit_AtThreshold(duration) == duration <= ADB_THRESHOLD

\* Line 178.
IsOneBit(duration) == duration < ADB_THRESHOLD

RECURSIVE DecodeFrom(_, _, _)
DecodeFrom(ld, k, value) ==
    IF k >= ADBDataBits THEN value
    ELSE DecodeFrom(ld, k + 1,
                    ((value * 2) % 65536) + (IF IsOneBit(ld[k + 2]) THEN 1 ELSE 0))

Decode(ld) == DecodeFrom(ld, 0, 0)

\* The register values a talking device answers with in SpecADB:
\* 0x0000, 0x8080, 0x8003, 0x807E.
TalkValues == { 0, 32896, 32771, 32894 }

\* How the ADB line behaves during one poll: "idle" never goes low, "low" is
\* stuck low, "slow" makes every edge 254 us after the wait for it began,
\* "talk" sends a start bit, the 16 bits of value and a stop bit in 100 us
\* cells, and may fall silent at any edge.
Lines ==
    { [kind |-> k, value |-> 0] : k \in {"idle", "low", "slow"} } \cup
    { [kind |-> "talk", value |-> v] : v \in TalkValues }

\* The bit sent in cell n of a talking device: start bit 1, data bits MSB
\* first, stop bit 0.
CellBit(v, n) ==
    IF n = 0 THEN 1
    ELSE IF n <= ADBDataBits THEN (v \div (2 ^ (ADBDataBits - n))) % 2
    ELSE 0

\* Low time of a cell: 35 us for a 1, 65 us for a 0.
CellLow(v, n) == IF CellBit(v, n) = 1 THEN 35 ELSE 65

\* Low times around the threshold and at both ends of what ADBWait returns
\* without timing out.
JitterTimes == { 0, 49, 50, 254 }

\* The times after which the awaited edge may come, for the wait of cell n
\* (a line of kind "jitter" makes any edge after any of JitterTimes, or none).
EdgeTimes(DesiredLineState, n) ==
    IF line.kind = "idle" THEN { Never }
    ELSE IF line.kind = "jitter" THEN JitterTimes \cup { Never }
    ELSE IF line.kind = "low" THEN (IF DesiredLineState = 0 THEN { 0 } ELSE { Never })
    ELSE IF line.kind = "slow" THEN { 254 }
    ELSE IF n >= ADBCells THEN { Never }
    ELSE IF DesiredLineState = 1 THEN { CellLow(line.value, n), Never }
    ELSE IF n = 0 THEN { 60, Never }
    ELSE { 100 - CellLow(line.value, n - 1), Never }

keyboardVars == <<closed, matrixVars, scanVars, KeyboardReportData, callpc, taskVars>>
usbMouseVars == <<USB_DeviceState, MouseReportData, MouseIN, mousepc>>
mouseState == <<AccumulatedX, AccumulatedY, Button1State, Button2State>>

\* ADBPollMouse is called; line 214.
ADBPollBegin ==
    /\ adbpc = "idle"
    /\ \E l \in Lines :
          /\ l.kind \in {"talk", "slow"} => polls < MaxPolls
          /\ line' = l
    /\ interrupts' = GlobalInterruptDisable(interrupts)
    /\ elapsed' = 0
    /\ waits' = 0
    /\ adbpc' = "command"
    /\ UNCHANGED <<DDRD1, PORTD1, adb_i, LowDuration, adb_valid, adb_RegisterValue,
                   returned>>
    /\ UNCHANGED <<keyboardVars, pinVars, moreVars, usbMouseVars, mouseState, polls>>

\* Line 219, ADBWriteCommand(0x3c): the last write leaves the latch at 1.
ADBWriteCommand ==
    /\ adbpc = "command"
    /\ PORTD1' = 1
    /\ elapsed' = elapsed + CommandMicroseconds
    /\ adbpc' = "read"
    /\ UNCHANGED <<interrupts, DDRD1, adb_i, LowDuration, adb_valid, adb_RegisterValue,
                   waits, line, returned>>
    /\ UNCHANGED <<keyboardVars, pinVars, moreVars, usbMouseVars, mouseState, polls>>

\* Line 223, ADBRead16, lines 143-150: the pin becomes an input.
ADBRead16Begin ==
    /\ adbpc = "read"
    /\ LET pin == SetPortPinDirection(DDRD1, PORTD1, 0)
       IN  DDRD1' = pin.ddr /\ PORTD1' = pin.port
    /\ elapsed' = elapsed + StopToStartMicroseconds
    /\ adb_i' = 0
    /\ LowDuration' = << >>
    /\ adbpc' = "waitlow"
    /\ UNCHANGED <<interrupts, adb_valid, adb_RegisterValue, waits, line, returned>>
    /\ UNCHANGED <<keyboardVars, pinVars, moreVars, usbMouseVars, mouseState, polls>>

\* Lines 153-159: wait until the line goes low.
ADBWaitLow ==
    /\ adbpc = "waitlow"
    /\ \E t \in EdgeTimes(0, adb_i) :
          LET Microseconds == ADBWait(t)
          IN  /\ elapsed' = elapsed + Microseconds
              /\ IF Microseconds = ADB_TIMEOUT
                 THEN /\ LET pin == SetPortPinDirection(DDRD1, PORTD1, 1)
                         IN  DDRD1' = pin.ddr /\ PORTD1' = pin.port
                      /\ adb_valid' = 0
                      /\ adbpc' = "end"
                 ELSE /\ adbpc' = "waithigh"
                      /\ UNCHANGED <<DDRD1, PORTD1, adb_valid>>
    /\ waits' = waits + 1
    /\ UNCHANGED <<interrupts, adb_i, LowDuration, adb_RegisterValue, line, returned>>
    /\ UNCHANGED <<keyboardVars, pinVars, moreVars, usbMouseVars, mouseState, polls>>

\* Lines 161-169, and lines 171-182 when the loop ends: wait until the line
\* goes high, record the low time.
ADBWaitHigh ==
    /\ adbpc = "waithigh"
    /\ \E t \in EdgeTimes(1, adb_i) :
          LET Microseconds == ADBWait(t)
              ld == Append(LowDuration, Microseconds)
          IN  /\ elapsed' = elapsed + Microseconds
              /\ LowDuration' = ld
              /\ IF Microseconds = ADB_TIMEOUT
                 THEN /\ LET pin == SetPortPinDirection(DDRD1, PORTD1, 1)
                         IN  DDRD1' = pin.ddr /\ PORTD1' = pin.port
                      /\ adb_valid' = 0
                      /\ adbpc' = "end"
                      /\ UNCHANGED <<adb_i, adb_RegisterValue>>
                 ELSE IF ReadLoopDone(adb_i + 1)
                 THEN /\ LET pin == SetPortPinDirection(DDRD1, PORTD1, 1)
                         IN  DDRD1' = pin.ddr /\ PORTD1' = pin.port
                      /\ adb_i' = adb_i + 1
                      /\ adb_RegisterValue' = Decode(ld)
                      /\ adb_valid' = 1
                      /\ adbpc' = "end"
                 ELSE /\ adb_i' = adb_i + 1
                      /\ adbpc' = "waitlow"
                      /\ UNCHANGED <<DDRD1, PORTD1, adb_valid, adb_RegisterValue>>
    /\ waits' = waits + 1
    /\ UNCHANGED <<interrupts, line, returned>>
    /\ UNCHANGED <<keyboardVars, pinVars, moreVars, usbMouseVars, mouseState, polls>>

\* Lines 224-273: interrupts are enabled, a valid register value is parsed,
\* valid is returned.
ADBPollEnd ==
    /\ adbpc = "end"
    /\ interrupts' = GlobalInterruptEnable(interrupts)
    /\ ParseRegister(adb_valid, adb_RegisterValue)
    /\ returned' = adb_valid
    /\ polls' = polls + adb_valid
    /\ adbpc' = "idle"
    /\ UNCHANGED <<DDRD1, PORTD1, adb_i, LowDuration, adb_valid, adb_RegisterValue,
                   elapsed, waits, line>>
    /\ UNCHANGED <<keyboardVars, pinVars, moreVars, usbMouseVars>>

NextADB ==
    \/ ADBPollBegin
    \/ ADBWriteCommand
    \/ ADBRead16Begin
    \/ ADBWaitLow
    \/ ADBWaitHigh
    \/ ADBPollEnd

SpecADB == Init /\ [][NextADB]_vars

\* The processor keeps executing and the timer keeps advancing.
SpecADBFair == SpecADB /\ WF_vars(NextADB)

\* ------------------------------------------- the register value, parsed

\* The register values drawn: both button bits, any 7-bit X field, and a Y
\* field that is the same or 0.
DrawnRegisterValues ==
    { b15 * 32768 + fy * 256 + b7 * 128 + fx :
        b15 \in {0, 1}, b7 \in {0, 1}, fx \in 0 .. 127, fy \in 0 .. 127 }

\* The low times a talking device sends for register value v.
LowDurationsOf(v) == [ n \in 1 .. ADBCells |-> CellLow(v, n - 1) ]

\* ADBRead16 has just returned 1 with a drawn register value; the
\* accumulators hold any values of their range, the button states are those
\* an earlier poll left.
InitParse ==
    /\ closed = {}
    /\ InitMatrix
    /\ InitScan
    /\ KeyboardReportData = ZeroKeyboardReport
    /\ callpc = "none"
    /\ InitTask
    /\ InitPins
    /\ InitHistory
    /\ InitUSB
    /\ USB_DeviceState = "Configured"
    /\ MouseReportData = ZeroMouseReport
    /\ MouseIN = NoPacket
    /\ mousepc = "poll"
    /\ polls = 0
    /\ adb_RegisterValue \in
          { v \in DrawnRegisterValues :
              (v \div 256) % 128 = v % 128 \/ (v \div 256) % 128 = 0 }
    /\ AccumulatedX \in ACCUMULATED_MIN .. ACCUMULATED_MAX
    /\ AccumulatedY = 0 - AccumulatedX
    /\ Button1State = (adb_RegisterValue \div 128) % 2
    /\ Button2State = (adb_RegisterValue \div 32768) % 2
    /\ adbpc = "end"
    /\ interrupts = 0
    /\ DDRD1 = 1
    /\ PORTD1 = 1
    /\ adb_i = ADBCells
    /\ LowDuration = LowDurationsOf(adb_RegisterValue)
    /\ adb_valid = 1
    /\ elapsed = CommandMicroseconds + StopToStartMicroseconds + 60 + 100 * (ADBCells - 1)
                   + LowDuration[ADBCells]
    /\ waits = 2 * ADBCells
    /\ line = [kind |-> "talk", value |-> adb_RegisterValue]
    /\ returned = -1

SpecParse == InitParse /\ [][ADBPollEnd]_vars

\* ------------------------------------------ Mouse_HID_Task in the main loop

\* The successful polls of one run (movement sums stay bounded).
MaxDeltas == 3

\* The register values the trackball answers with here: nothing, X +3,
\* X -2, (+63, +63), (-64, -64).
LoopRegisterValues == { 32896, 32771, 32894, 16191, 49344 }

\* ADBMouse.c lines 244-254: the signed movement a 7-bit field stands for.
Delta(field) == IF field < 64 THEN field ELSE field - 128

\* KeyboardMouse.c lines 333-338: whether this call of Mouse_HID_Task reaches
\* ADBPollMouse(); the state of the IN endpoint is not looked at before.
MousePolled_WhenWritable(configured, writable) == configured /\ writable

MousePolled(configured, writable) == configured

\* Mouse_HID_Task, lines 333-338, with the sums of what was polled.
MouseTaskPoll ==
    /\ mousepc = "poll"
    /\ IF ~MousePolled(USB_DeviceState = "Configured", MouseIN = NoPacket)
       THEN /\ pollsInCall' = 0
            /\ mousepc' = IF USB_DeviceState = "Configured" THEN "emit" ELSE "poll"
            /\ UNCHANGED <<AccumulatedX, AccumulatedY, Button1State, Button2State,
                           polls, polledX, polledY, saturated, successes>>
       ELSE /\ \E valid \in {0, 1} : \E RegisterValue \in LoopRegisterValues :
                  LET X == RegisterValue % 128
                      Y == (RegisterValue \div 256) % 128
                  IN  /\ valid = 1 => successes < MaxDeltas
                      /\ ParseRegister(valid, RegisterValue)
                      /\ polls' = polls + valid
                      /\ successes' = successes + valid
                      /\ polledX' = polledX + valid * Delta(X)
                      /\ polledY' = polledY + valid * Delta(Y)
                      /\ saturated' =
                            \/ saturated
                            \/ /\ valid = 1
                               /\ \/ Accumulate(AccumulatedX, X) # AccumulatedX + Delta(X)
                                  \/ Accumulate(AccumulatedY, Y) # AccumulatedY + Delta(Y)
            /\ pollsInCall' = 1
            /\ mousepc' = "emit"
    /\ UNCHANGED <<USB_DeviceState, MouseReportData, MouseIN, sentX, sentY>>
    /\ UNCHANGED <<closed, pinVars, scanHist, usbVars, matrixVars, scanVars,
                   KeyboardReportData, callpc, taskVars, adbVars, timerVars>>

\* Mouse_HID_Task, lines 341-361, with the sums of what was reported.
MouseTaskEmit ==
    /\ mousepc = "emit"
    /\ IF MouseIN = NoPacket
       THEN /\ MouseReportData' = [ Button |-> Button1State + 2 * Button2State,
                                    X |-> Int8(AccumulatedX),
                                    Y |-> Int8(AccumulatedY) ]
            /\ AccumulatedX' = ZeroedAccumulator(AccumulatedX)
            /\ AccumulatedY' = ZeroedAccumulator(AccumulatedY)
            /\ MouseIN' = <<MouseReportData'>>
            /\ polls' = 0
            /\ sentX' = sentX + MouseReportData'.X
            /\ sentY' = sentY + MouseReportData'.Y
       ELSE UNCHANGED <<MouseReportData, AccumulatedX, AccumulatedY, MouseIN, polls,
                        sentX, sentY>>
    /\ mousepc' = "poll"
    /\ UNCHANGED <<USB_DeviceState, Button1State, Button2State, pollsInCall,
                   polledX, polledY, saturated, successes>>
    /\ UNCHANGED <<closed, pinVars, scanHist, usbVars, matrixVars, scanVars,
                   KeyboardReportData, callpc, taskVars, adbVars, timerVars>>

NextMouseTask ==
    \/ MouseTaskPoll
    \/ MouseTaskEmit
    \/ HostTakesMouseIN
    \/ \E st \in {"Unattached", "Configured"} : SetDeviceState(st)

SpecMouseTask == Init /\ [][NextMouseTask]_vars

\* ------------------------------------------------------- the USB callbacks

\* The cells pressed when a callback runs: Return, 3 and 8, an L-shape.
CallbackCells == { <<1, 1>>, <<1, 2>>, <<2, 1>> }

\* The control requests the host sends: the two HID requests the handler
\* knows, for either interface, and one it leaves to the library.
ControlRequests ==
    [ bRequest : {"HID_REQ_GetReport", "HID_REQ_SetReport", "REQ_GetStatus"},
      wIndex : {0, 1} ]

\* The main loop was interrupted anywhere: between two scans or inside one,
\* with keys held and flagged, movement accumulated, reports built.
InitCallbacks ==
    /\ closed = {}
    /\ RawSwitchPressed \in SUBSET CallbackCells
    /\ TotalInRow = RowCount(RawSwitchPressed)
    /\ TotalInColumn = ColumnCount(RawSwitchPressed)
    /\ LET ghosts == CheckForGhosts(RawSwitchPressed, TotalInRow, TotalInColumn)
       IN  /\ RowHasGhost = ghosts.row
           /\ ColumnHasGhost = ghosts.col
           /\ KeyPressed = { ScanCodeAt(k[1], k[2]) : k \in { c \in RawSwitchPressed :
                                ghosts.row[c[1]] = 0 /\ ghosts.col[c[2]] = 0 } }
    /\ CurrentRow \in {0, 5}
    /\ CurrentColumn = 0
    /\ i = 0
    /\ scanpc \in {"idle", "scan"}
    /\ RowDDR = [r \in Rows |-> IF scanpc = "scan" /\ r = CurrentRow THEN 1 ELSE 0]
    /\ RowPORT = [r \in Rows |-> IF scanpc = "scan" /\ r = CurrentRow THEN 0 ELSE 1]
    /\ KeyboardReportData = BuildKeyboardReport(KeyPressed)
    /\ USB_DeviceState = "Configured"
    /\ AccumulatedX \in {5, ACCUMULATED_MIN}
    /\ AccumulatedY = 0 - AccumulatedX
    /\ Button1State \in {0, 1}
    /\ Button2State = 1 - Button1State
    /\ MouseReportData = [Button |-> 1, X |-> 5, Y |-> -5]
    /\ MouseIN = <<MouseReportData>>
    /\ mousepc = "poll"
    /\ polls = 0
    /\ callpc = "none"
    /\ InitTask
    /\ InitADB
    /\ InitHistory
    /\ LEDs = "LEDMASK_USB_READY"
    /\ USB_ControlRequest = NoRequest
    /\ usbpc = "none"
    /\ InitTimer

\* Lines 118-122.
EVENT_USB_Device_Connect ==
    /\ usbpc = "none"
    /\ LEDs' = "LEDMASK_USB_ENUMERATING"
    /\ UNCHANGED <<USB_ControlRequest, usbpc>>
    /\ UNCHANGED <<closed, matrixVars, scanVars, KeyboardReportData, mouseVars, callpc,
                   taskVars, adbVars, timerVars, pinVars, scanHist, mouseHist>>

\* Lines 127-131.
EVENT_USB_Device_Disconnect ==
    /\ usbpc = "none"
    /\ LEDs' = "LEDMASK_USB_NOTREADY"
    /\ UNCHANGED <<USB_ControlRequest, usbpc>>
    /\ UNCHANGED <<closed, matrixVars, scanVars, KeyboardReportData, mouseVars, callpc,
                   taskVars, adbVars, timerVars, pinVars, scanHist, mouseHist>>

\* Lines 136-149: the three endpoints are configured (a bank may lose its
\* packet or keep it) and the LEDs show whether that succeeded.
EVENT_USB_Device_ConfigurationChanged ==
    /\ usbpc = "none"
    /\ \E ConfigSuccess \in BOOLEAN :
          LEDs' = IF ConfigSuccess THEN "LEDMASK_USB_READY" ELSE "LEDMASK_USB_ERROR"
    /\ KeyboardIN' \in {KeyboardIN, NoPacket}
    /\ MouseIN' \in {MouseIN, NoPacket}
    /\ UNCHANGED <<USB_ControlRequest, usbpc>>
    /\ UNCHANGED <<USB_DeviceState, AccumulatedX, AccumulatedY, Button1State,
                   Button2State, MouseReportData, mousepc, polls>>
    /\ UNCHANGED <<KeyboardSuppressPolling, kbdpc, scans, builds>>
    /\ UNCHANGED <<closed, matrixVars, scanVars, KeyboardReportData, callpc,
                   adbVars, timerVars, pinVars, scanHist, mouseHist>>

\* The host sends a SETUP packet; the library stores it in USB_ControlRequest
\* and calls the handler.
SetupReceived(request) ==
    /\ usbpc = "none"
    /\ USB_ControlRequest = NoRequest
    /\ USB_ControlRequest' = request
    /\ UNCHANGED <<LEDs, usbpc>>
    /\ UNCHANGED <<closed, matrixVars, scanVars, KeyboardReportData, mouseVars, callpc,
                   taskVars, adbVars, timerVars, pinVars, scanHist, mouseHist>>

\* Lines 170-185: the objects memset(ReportData, 0, ReportSize) clears.
ClearedByGetReport_WithAccumulators(wIndex) ==
    IF wIndex = 0 THEN {"KeyboardReportData", "CurrentRow", "KeyPressed"}
                  ELSE {"MouseReportData", "AccumulatedX", "AccumulatedY"}

ClearedByGetReport(wIndex) ==
    IF wIndex = 0 THEN {"KeyboardReportData"} ELSE {"MouseReportData"}

\* Lines 155-213: the handler looks at the request.  GetReport writes the
\* report to the control endpoint and clears it; SetReport goes on to wait
\* for the LED report; any other request is left to the library.
EVENT_USB_Device_ControlRequest ==
    /\ usbpc = "none"
    /\ USB_ControlRequest # NoRequest
    /\ USB_ControlRequest' = NoRequest
    /\ usbpc' = IF USB_ControlRequest.bRequest = "HID_REQ_SetReport" THEN "wait" ELSE "none"
    /\ LET cleared == IF USB_ControlRequest.bRequest = "HID_REQ_GetReport"
                      THEN ClearedByGetReport(USB_ControlRequest.wIndex)
                      ELSE {}
       IN  /\ KeyboardReportData' = IF "KeyboardReportData" \in cleared
                                    THEN ZeroKeyboardReport ELSE KeyboardReportData
           /\ MouseReportData' = IF "MouseReportData" \in cleared
                                 THEN ZeroMouseReport ELSE MouseReportData
           /\ CurrentRow' = IF "CurrentRow" \in cleared THEN 0 ELSE CurrentRow
           /\ KeyPressed' = IF "KeyPressed" \in cleared THEN {} ELSE KeyPressed
           /\ AccumulatedX' = IF "AccumulatedX" \in cleared THEN 0 ELSE AccumulatedX
           /\ AccumulatedY' = IF "AccumulatedY" \in cleared THEN 0 ELSE AccumulatedY
    /\ UNCHANGED <<RawSwitchPressed, TotalInRow, TotalInColumn, RowHasGhost,
                   ColumnHasGhost, CurrentColumn, i, scanpc>>
    /\ UNCHANGED <<USB_DeviceState, Button1State, Button2State, MouseIN, mousepc, polls>>
    /\ UNCHANGED <<closed, callpc, taskVars, adbVars, timerVars, pinVars, scanHist, mouseHist, LEDs>>

\* Lines 198-211: the loop waits for the LED report and gives up when the
\* device is detached; the LED byte is read and Keyboard_ProcessLEDReport
\* (lines 220-226) does nothing with it.
SetReportWait ==
    /\ usbpc = "wait"
    /\ \E Endpoint_IsOUTReceived \in BOOLEAN :
          usbpc' = IF Endpoint_IsOUTReceived \/ USB_DeviceState = "Unattached"
                   THEN "none" ELSE "wait"
    /\ UNCHANGED <<LEDs, USB_ControlRequest>>
    /\ UNCHANGED <<closed, matrixVars, scanVars, KeyboardReportData, mouseVars, callpc,
                   taskVars, adbVars, timerVars, pinVars, scanHist, mouseHist>>

NextCallbacks ==
    \/ EVENT_USB_Device_Connect
    \/ EVENT_USB_Device_Disconnect
    \/ EVENT_USB_Device_ConfigurationChanged
    \/ \E request \in ControlRequests : SetupReceived(request)
    \/ EVENT_USB_Device_ControlRequest
    \/ SetReportWait
    \/ \E st \in {"Unattached", "Configured"} : SetDeviceState(st)

SpecCallbacks == InitCallbacks /\ [][NextCallbacks]_vars

\* ------------------------------------ KeyboardScanMatrix, pin write by pin write

\* The last n entries of a sequence (all of it when it is shorter).
LastOf(seq, n) ==
    IF Len(seq) <= n THEN seq ELSE SubSeq(seq, Len(seq) - n + 1, Len(seq))

\* Keyboard_HID_Task, line 244: KeyboardScanMatrix() is called.
RowsCall ==
    /\ scanpc = "idle"
    /\ i' = 0
    /\ scanpc' = "row"
    /\ sampled' = << >>
    /\ UNCHANGED <<closed, pinVars, matrixVars, CurrentRow, CurrentColumn, lastRows,
                   KeyboardReportData, mouseVars, callpc, taskVars, adbVars, timerVars,
                   mouseHist, usbVars>>

\* Line 255: the pin of CurrentRow is made an output.
RowDirectionOut ==
    /\ scanpc = "row"
    /\ i < ROWS_PER_REPORT
    /\ LET out == SetPortPinDirection(RowDDR[CurrentRow], RowPORT[CurrentRow], 1)
       IN  /\ RowDDR' = [RowDDR EXCEPT ![CurrentRow] = out.ddr]
           /\ RowPORT' = [RowPORT EXCEPT ![CurrentRow] = out.port]
    /\ scanpc' = "drive"
    /\ UNCHANGED <<closed, matrixVars, CurrentRow, CurrentColumn, i, scanHist,
                   KeyboardReportData, mouseVars, callpc, taskVars, adbVars, timerVars,
                   mouseHist, usbVars>>

\* Lines 256-258: the pin is written low, the voltages settle, the column
\* loop starts.
RowWriteLow ==
    /\ scanpc = "drive"
    /\ RowPORT' = [RowPORT EXCEPT ![CurrentRow] = WritePortPin(@, 0)]
    /\ CurrentColumn' = 0
    /\ scanpc' = "scan"
    /\ UNCHANGED <<closed, RowDDR, matrixVars, CurrentRow, i, scanHist,
                   KeyboardReportData, mouseVars, callpc, taskVars, adbVars, timerVars,
                   mouseHist, usbVars>>

\* Lines 258-300: one column of the driven row is sampled, the pin reading
\* anything.
RowsSample ==
    /\ scanpc = "scan"
    /\ CurrentColumn < MATRIX_COLUMNS
    /\ \E pin \in {0, 1} : \E stale \in StaleScanCodes :
          /\ pin = 0 =>
                /\ <<CurrentRow, CurrentColumn>> \in PinCells
                /\ \/ <<CurrentRow, CurrentColumn>> \in RawSwitchPressed
                   \/ Cardinality(RawSwitchPressed) < MaxLow
          /\ SampleColumn(pin, stale)
    /\ sampled' = Append(sampled, <<CurrentRow, CurrentColumn>>)
    /\ CurrentColumn' = CurrentColumn + 1
    /\ UNCHANGED <<closed, pinVars, CurrentRow, i, scanpc, lastRows,
                   KeyboardReportData, mouseVars, callpc, taskVars, adbVars, timerVars,
                   mouseHist, usbVars>>

\* Lines 301-304: the pin is written high and the voltages settle.
RowWriteHigh ==
    /\ scanpc = "scan"
    /\ CurrentColumn = MATRIX_COLUMNS
    /\ RowPORT' = [RowPORT EXCEPT ![CurrentRow] = WritePortPin(@, 1)]
    /\ scanpc' = "release"
    /\ UNCHANGED <<closed, RowDDR, matrixVars, CurrentRow, CurrentColumn, i, scanHist,
                   KeyboardReportData, mouseVars, callpc, taskVars, adbVars, timerVars,
                   mouseHist, usbVars>>

\* Lines 305-310: the pin is made an input again and CurrentRow advances.
RowDirectionIn ==
    /\ scanpc = "release"
    /\ LET in == SetPortPinDirection(RowDDR[CurrentRow], RowPORT[CurrentRow], 0)
       IN  /\ RowDDR' = [RowDDR EXCEPT ![CurrentRow] = in.ddr]
           /\ RowPORT' = [RowPORT EXCEPT ![CurrentRow] = in.port]
    /\ lastRows' = LastOf(Append(lastRows, CurrentRow), MATRIX_ROWS)
    /\ CurrentRow' = NextRow(CurrentRow)
    /\ i' = i + 1
    /\ scanpc' = "row"
    /\ UNCHANGED <<closed, matrixVars, CurrentColumn, sampled,
                   KeyboardReportData, mouseVars, callpc, taskVars, adbVars, timerVars,
                   mouseHist, usbVars>>

\* Line 251: ROWS_PER_REPORT rows were scanned, KeyboardScanMatrix returns.
RowsReturn ==
    /\ scanpc = "row"
    /\ i >= ROWS_PER_REPORT
    /\ scanpc' = "idle"
    /\ UNCHANGED <<closed, pinVars, matrixVars, CurrentRow, CurrentColumn, i, scanHist,
                   KeyboardReportData, mouseVars, callpc, taskVars, adbVars, timerVars,
                   mouseHist, usbVars>>

NextRows ==
    \/ RowsCall
    \/ RowDirectionOut
    \/ RowWriteLow
    \/ RowsSample
    \/ RowWriteHigh
    \/ RowDirectionIn
    \/ RowsReturn

SpecRows == Init /\ [][NextRows]_vars

\* ------------------------------------------------- ADBRead16, the decoding

\* The register values whose nominal cells fill the response: 0x0000,
\* 0xFFFF, 0x5555, 0xAAAA.
DecodeBases == { 0, 65535, 21845, 43690 }

\* The cells (1-based: 1 is the start bit) whose low time is off nominal:
\* the start bit, the first two data bits and the last data bit.
JitterCells == { 1, 2, 3, 17 }

\* The low times measured for the start bit and the 16 data bits.
MeasuredSoFar ==
    { [ n \in 1 .. ADBCells - 1 |->
          IF n \in JitterCells /\ off[n] # -1 THEN off[n] ELSE CellLow(v, n - 1) ] :
        v \in DecodeBases, off \in [ JitterCells -> JitterTimes \cup { -1 } ] }

RECURSIVE SumOf(_)
SumOf(seq) == IF seq = << >> THEN 0 ELSE Head(seq) + SumOf(Tail(seq))

\* ADBRead16 is in its last iteration: 17 cells were measured, the line
\* went low for the stop bit at once, line 161 is next.
InitDecode ==
    /\ closed = {}
    /\ InitMatrix
    /\ InitScan
    /\ KeyboardReportData = ZeroKeyboardReport
    /\ InitMouse
    /\ callpc = "none"
    /\ InitTask
    /\ InitPins
    /\ InitHistory
    /\ InitUSB
    /\ adbpc = "waithigh"
    /\ interrupts = 0
    /\ DDRD1 = 0
    /\ PORTD1 = 1
    /\ adb_i = ADBCells - 1
    /\ LowDuration \in MeasuredSoFar
    /\ adb_valid = 0
    /\ adb_RegisterValue = 0
    /\ elapsed = CommandMicroseconds + StopToStartMicroseconds + SumOf(LowDuration)
    /\ waits = 2 * ADBCells - 1
    /\ line = [kind |-> "jitter", value |-> 0]
    /\ returned = -1

SpecDecode == InitDecode /\ [][ADBWaitHigh \/ ADBPollEnd]_vars

\* ------------------------------------------- DelayMicroseconds and ADBWait

\* Timer ticks that pass from one read of TCNT1 to the next, at most.
MaxAdvance == 2

\* The count of elapsed ticks stops here (the timer itself goes on).
TickCap == 131072

\* The arguments DelayMicroseconds is called with.
DelayArgs == { 0, 1, 3, 255, 32767 }

\* When the ADB line takes the desired state, in ticks after ADBWait read
\* StartTime: never, at once, or around the 510 ticks of ADB_TIMEOUT.
EdgeTicks == { -1, 0, 1, 509, 510, 511, 600 }

\* uint16_t minus uint16_t where int has 16 bits (Util.c line 153,
\* ADBMouse.c line 123).
TimerDiff_NoWrap(now, start) == now - start

TimerDiff(now, start) == (now - start + 65536) % 65536

\* Util.c line 148, in uint16_t.
DesiredCountOf(MicroSeconds) == (MicroSeconds * 2) % 65536

\* Timer1 counts on by d ticks.
TimerAdvance(d) ==
    /\ TCNT1' = (TCNT1 + d) % 65536
    /\ ticks' = IF ticks + d > TickCap THEN TickCap ELSE ticks + d

\* The timer holds any of StartValues when a timed function is called.
TimerRuns ==
    /\ timerpc = "idle"
    /\ TCNT1 = 0
    /\ TCNT1' \in StartValues \ { 0 }
    /\ UNCHANGED <<timerpc, delay_MicroSeconds, StartTime, CurrentTime, DesiredCount,
                   wait_Microseconds, wait_returned, edgeAt, ticks, seenTicks>>
    /\ UNCHANGED <<closed, matrixVars, scanVars, KeyboardReportData, mouseVars, callpc,
                   taskVars, adbVars, pinVars, scanHist, mouseHist, usbVars>>

\* DelayMicroseconds, Util.c lines 144-149.
DelayMicrosecondsCall(MicroSeconds) ==
    /\ timerpc = "idle"
    /\ delay_MicroSeconds' = MicroSeconds
    /\ DesiredCount' = DesiredCountOf(MicroSeconds)
    /\ StartTime' = TCNT1
    /\ ticks' = 0
    /\ timerpc' = "delay"
    /\ UNCHANGED <<TCNT1, CurrentTime, wait_Microseconds, wait_returned, edgeAt, seenTicks>>
    /\ UNCHANGED <<closed, matrixVars, scanVars, KeyboardReportData, mouseVars, callpc,
                   taskVars, adbVars, pinVars, scanHist, mouseHist, usbVars>>

\* Util.c lines 150-153: one pass of the do-while loop.
DelayLoop ==
    /\ timerpc = "delay"
    /\ \E d \in 0 .. MaxAdvance : TimerAdvance(d)
    /\ CurrentTime' = TCNT1'
    /\ timerpc' = IF TimerDiff(CurrentTime', StartTime) < DesiredCount
                  THEN "delay" ELSE "delayed"
    /\ UNCHANGED <<delay_MicroSeconds, StartTime, DesiredCount, wait_Microseconds,
                   wait_returned, edgeAt, seenTicks>>
    /\ UNCHANGED <<closed, matrixVars, scanVars, KeyboardReportData, mouseVars, callpc,
                   taskVars, adbVars, pinVars, scanHist, mouseHist, usbVars>>

\* ADBWait, ADBMouse.c lines 115-120; the line will take the desired state
\* edge ticks from now.
ADBWaitCall(edge) ==
    /\ timerpc = "idle"
    /\ wait_Microseconds' = 0
    /\ StartTime' = TCNT1
    /\ ticks' = 0
    /\ seenTicks' = 0
    /\ edgeAt' = edge
    /\ timerpc' = "wait"
    /\ UNCHANGED <<TCNT1, delay_MicroSeconds, CurrentTime, DesiredCount, wait_returned>>
    /\ UNCHANGED <<closed, matrixVars, scanVars, KeyboardReportData, mouseVars, callpc,
                   taskVars, adbVars, pinVars, scanHist, mouseHist, usbVars>>

\* ADBMouse.c lines 121-127: the pin is read; in the desired state
\* Microseconds is returned, else TCNT1 is read and the timeout is tested.
ADBWaitLoop ==
    /\ timerpc = "wait"
    /\ \E d \in 0 .. MaxAdvance : TimerAdvance(d)
    /\ IF edgeAt # -1 /\ ticks' >= edgeAt
       THEN /\ wait_returned' = wait_Microseconds
            /\ timerpc' = "waited"
            /\ UNCHANGED <<wait_Microseconds, seenTicks>>
       ELSE /\ wait_Microseconds' = TimerDiff(TCNT1', StartTime) \div 2
            /\ seenTicks' = ticks'
            /\ IF wait_Microseconds' >= ADB_TIMEOUT
               THEN wait_returned' = ADB_TIMEOUT /\ timerpc' = "waited"
               ELSE UNCHANGED <<wait_returned, timerpc>>
    /\ UNCHANGED <<delay_MicroSeconds, StartTime, CurrentTime, DesiredCount, edgeAt>>
    /\ UNCHANGED <<closed, matrixVars, scanVars, KeyboardReportData, mouseVars, callpc,
                   taskVars, adbVars, pinVars, scanHist, mouseHist, usbVars>>

NextTimer ==
    \/ TimerRuns
    \/ \E MicroSeconds \in DelayArgs : DelayMicrosecondsCall(MicroSeconds)
    \/ DelayLoop
    \/ \E edge \in EdgeTicks : ADBWaitCall(edge)
    \/ ADBWaitLoop

SpecTimer == Init /\ [][NextTimer]_vars

\* ================================================================= claims

Cells == Rows \X Columns
CellsOf(s) == { k \in Cells : ScanCodeAt(k[1], k[2]) = s }
MatrixCodes == { ScanCodeAt(k[1], k[2]) : k \in Cells }
Ghosted(k) == RowHasGhost[k[1]] = 1 \/ ColumnHasGhost[k[2]] = 1
\* The cell the last column sample of the driven row read.
LastSampled == <<CurrentRow, CurrentColumn - 1>>
JustSampled == scanpc = "scan" /\ CurrentColumn > 0

\* C1 (SpecPins): after any sequence of column samples, with any pin
\* readings, TotalInRow[r] is the number of raw presses of row r and
\* TotalInColumn[c] the number of raw presses of column c; a counter that
\* had gone below 0 would hold 255 and differ from its count.  The state
\* after a sample is the state CheckForGhosts reads when that sample
\* invokes it.
C1_CountsExact ==
    /\ \A r \in Rows :
          TotalInRow[r] = Cardinality({ c \in Columns : <<r, c>> \in RawSwitchPressed })
    /\ \A c \in Columns :
          TotalInColumn[c] = Cardinality({ r \in Rows : <<r, c>> \in RawSwitchPressed })

\* Reached only through a pressed -> unpressed transition: Return (1,1) is
\* raw-pressed and unghosted yet not marked, so it was sampled while a
\* third press, since released, made it a ghost.
C1_Witness ==
    /\ RawSwitchPressed = { <<1, 0>>, <<1, 1>> }
    /\ 158 \notin KeyPressed
    /\ TotalInRow[1] = 2
    /\ TotalInColumn[1] = 1
    /\ TotalInColumn[0] = 1

\* C3 (SpecPins): right after a sample that read a wired cell as released,
\* the cell's scan code is not marked in KeyPressed, whatever the ghost flags.
C3_ReleaseImmunity ==
    (JustSampled /\ LastSampled \notin RawSwitchPressed
       /\ ScanCodeAt(LastSampled[1], LastSampled[2]) # 0)
    => ScanCodeAt(LastSampled[1], LastSampled[2]) \notin KeyPressed

\* (0,1) was just read as released while its row and its column are still
\* flagged as ghosted by the other three raw presses.
C3_Witness ==
    /\ JustSampled
    /\ LastSampled = <<0, 1>>
    /\ <<0, 1>> \notin RawSwitchPressed
    /\ RowHasGhost[0] = 1
    /\ ColumnHasGhost[1] = 1

\* The L-shapes (r1,c1), (r1,c2), (r2,c1) of operated switches, as sets of
\* three cells; no operated switch is in a ghost-free column.
LShapes ==
    { {a, b, c} : a \in Switches, b \in Switches, c \in Switches } \cap
    { L \in SUBSET Switches :
        \E r1 \in Rows, r2 \in Rows, c1 \in Columns, c2 \in Columns :
            /\ r1 # r2 /\ c1 # c2
            /\ L = { <<r1, c1>>, <<r1, c2>>, <<r2, c1>> } }
CodesOf(L) == { ScanCodeAt(k[1], k[2]) : k \in L }

\* C8 as stated (Spec): whenever three held switches forming an L are all
\* raw-pressed, none of their scan codes is marked in KeyPressed.
C8_Original ==
    \A L \in LShapes :
        (L \subseteq closed /\ L \subseteq RawSwitchPressed)
        => CodesOf(L) \cap KeyPressed = {}

\* C8 as amended (Spec): no step that leaves the three switches of an L all
\* raw-pressed newly marks one of them pressed; the ones marked before the L
\* was completed stay marked.
C8_LShapeSuppression ==
    [][ \A L \in LShapes :
          L \subseteq RawSwitchPressed'
          => (CodesOf(L) \cap KeyPressed') \subseteq KeyPressed ]_vars

\* U (1,0) and Return (1,1) were marked, then B (3,0) completed the L: all
\* three are held and raw-pressed, B is suppressed.
C8_Witness ==
    /\ { <<1, 0>>, <<1, 1>>, <<3, 0>> } \subseteq closed
    /\ { <<1, 0>>, <<1, 1>>, <<3, 0>> } \subseteq RawSwitchPressed
    /\ 5 \notin KeyPressed
    /\ 24 \in KeyPressed
    /\ 158 \in KeyPressed
    /\ RowHasGhost[3] = 1

\* C9 as stated (Spec): KeyPressed[s] is the disjunction, over the cells of
\* scan code s, of raw-pressed and neither row nor column ghosted.
C9_Original ==
    \A s \in MatrixCodes :
        (s \in KeyPressed) <=>
        (\E k \in CellsOf(s) : k \in RawSwitchPressed /\ ~Ghosted(k))

\* C9 as amended (Spec): KeyPressed[s] implies that some cell of scan code s
\* is raw-pressed.
C9_CookedImpliesRaw ==
    \A s \in MatrixCodes :
        (s \in KeyPressed) => (\E k \in CellsOf(s) : k \in RawSwitchPressed)

\* A key marked pressed whose cell is raw-pressed in a ghosted row.
C9_Witness ==
    /\ 24 \in KeyPressed
    /\ <<1, 0>> \in RawSwitchPressed
    /\ RowHasGhost[1] = 1
    /\ <<1, 1>> \notin RawSwitchPressed

\* C10 as stated (Spec): no sample of a cell whose own switch is open sets
\* KeyPressed of the cell's scan code.
C10_GhostFree ==
    [][ (scanpc = "scan" /\ CurrentColumn' = CurrentColumn + 1
           /\ <<CurrentRow, CurrentColumn>> \notin closed)
        => ~( ScanCodeAt(CurrentRow, CurrentColumn) \notin KeyPressed
              /\ ScanCodeAt(CurrentRow, CurrentColumn) \in KeyPressed' ) ]_vars

\* The ghost-free columns as the claims name them.
GhostFreeColumns == { 9, 10, 12, 13, 14 }

\* C2 (SpecGhost): after CheckForGhosts on a raw state of exactly the three
\* presses (r1,c1), (r1,c2), (r2,c2): with neither column ghost-free, (r1,c1)
\* and (r2,c2) are each covered by a set row or column flag; with both
\* columns ghost-free, no row flag and no column flag is set.
C2_GhostSymmetry ==
    callpc = "done" =>
    \A r1 \in Rows, r2 \in Rows, c1 \in Columns, c2 \in Columns :
        (r1 # r2 /\ c1 # c2
           /\ RawSwitchPressed = { <<r1, c1>>, <<r1, c2>>, <<r2, c2>> })
        => /\ (c1 \notin GhostFreeColumns /\ c2 \notin GhostFreeColumns)
                => (Ghosted(<<r1, c1>>) /\ Ghosted(<<r2, c2>>))
           /\ (c1 \in GhostFreeColumns /\ c2 \in GhostFreeColumns)
                => /\ \A r \in Rows : RowHasGhost[r] = 0
                   /\ \A c \in Columns : ColumnHasGhost[c] = 0

\* (0,1), (0,2), (1,2): the corner (0,2) flags rows 0 and 1 and columns 1, 2.
C2_Witness ==
    /\ callpc = "done"
    /\ RawSwitchPressed = { <<0, 1>>, <<0, 2>>, <<1, 2>> }
    /\ RowHasGhost[0] = 1
    /\ RowHasGhost[1] = 1
    /\ ColumnHasGhost[1] = 1

\* C4 (SpecMouse): AccumulatedX and AccumulatedY stay in [-127, 127].
C4_MouseSaturation ==
    /\ ACCUMULATED_MIN <= AccumulatedX /\ AccumulatedX <= ACCUMULATED_MAX
    /\ ACCUMULATED_MIN <= AccumulatedY /\ AccumulatedY <= ACCUMULATED_MAX

\* Three polls of 0x403F: X clamped at 127 (from 189), Y at -127 (from -192).
C4_Witness ==
    /\ AccumulatedX = 127
    /\ AccumulatedY = -127
    /\ polls = 3

\* C5 (SpecMouse): the step of Mouse_HID_Task after the poll zeroes both
\* accumulators and sends a report when the IN endpoint is writable, and
\* leaves the accumulators as the poll left them when it is not.
C5_ReportZeroing ==
    [][ (mousepc = "emit" /\ mousepc' = "poll")
        => IF MouseIN = NoPacket
           THEN AccumulatedX' = 0 /\ AccumulatedY' = 0 /\ MouseIN' # NoPacket
           ELSE /\ AccumulatedX' = AccumulatedX /\ AccumulatedY' = AccumulatedY
                /\ MouseIN' = MouseIN ]_vars

\* A report with movement in both axes was just sent; both accumulators are 0.
C5_Witness ==
    /\ mousepc = "poll"
    /\ MouseIN = <<MouseReportData>>
    /\ MouseReportData.X = 126
    /\ MouseReportData.Y = -127
    /\ AccumulatedX = 0
    /\ AccumulatedY = 0

\* The scan codes of keys (1 .. 255) marked pressed that are no modifiers;
\* scan code 0 is no key.
NonModifiersPressed == { s \in KeyPressed : s >= 1 /\ s <= 255 /\ ~(s \in 224 .. 231) }
AllRollover == \A slot \in 1 .. 6 : KeyboardReportData.KeyCode[slot] = 1

\* C6 (SpecReport): a report built while more than six non-modifier scan
\* codes are marked pressed has 0x01 in all six keycode slots.
C6_RolloverRule ==
    (callpc = "done" /\ Cardinality(NonModifiersPressed) > 6) => AllRollover

\* Exactly seven non-modifier keys are marked and the report is all 0x01.
C6_Witness ==
    /\ callpc = "done"
    /\ Cardinality(NonModifiersPressed) = 7
    /\ AllRollover

\* C7 as stated (SpecReport): a report built while seven or more
\* non-modifier keys and some modifier keys are marked pressed has the bit
\* of every marked modifier set and 0x01 in all six keycode slots.
C7_ModifiersSurviveRollover ==
    (callpc = "done" /\ Cardinality(NonModifiersPressed) >= 7)
    => /\ \A m \in KeyPressed \cap (224 .. 231) :
             (KeyboardReportData.Modifier \div (2 ^ (m - 224))) % 2 = 1
       /\ AllRollover

\* The raw presses that are not in a ghost-free column.
WithoutGhostFree(raw) == { k \in raw : k[2] \notin GhostFreeColumns }

\* C11 as stated (SpecGhost): the flags CheckForGhosts computes are the flags
\* it computes once every press in a ghost-free column is removed from the
\* raw state (and from the counters).
C11_GhostFreeInert ==
    callpc = "done" =>
    LET raw == WithoutGhostFree(RawSwitchPressed)
        g == CheckForGhosts(raw, RowCount(raw), ColumnCount(raw))
    IN  RowHasGhost = g.row /\ ColumnHasGhost = g.col

\* C12 (SpecTask): every write of the keyboard report to its IN endpoint
\* follows exactly one call of KeyboardScanMatrix and exactly one build of
\* the report since the previous write (since start-up for the first one),
\* however often the task ran meanwhile; and KeyboardSuppressPolling is 1
\* exactly when a built report has not yet been written to the endpoint.
C12_PollingThrottle ==
    [][ /\ (kbdpc = "send" /\ KeyboardIN = NoPacket /\ KeyboardIN' # NoPacket)
           => (scans = 1 /\ builds = 1)
        /\ scans' <= 1
        /\ (KeyboardSuppressPolling' = 1) <=> (builds' = 1) ]_vars

\* The task ran with the endpoint not writable (the report built from a held
\* U is kept, polling suppressed, the endpoint still holds the empty report),
\* with exactly one scan counted.
C12_Witness ==
    /\ kbdpc = "entry"
    /\ KeyboardSuppressPolling = 1
    /\ KeyboardIN = <<ZeroKeyboardReport>>
    /\ KeyboardReportData.KeyCode[1] = 24
    /\ scans = 1
    /\ builds = 1

\* Most calls of ADBWait in one poll: two per bit cell.
MostWaits == 2 * ADBCells

\* C13 (SpecADBFair): whatever the ADB line does, a poll makes at most 36
\* calls of ADBWait and, the timer advancing, returns; on a line that never
\* goes low the first wait times out at 255 us, no other wait is made, and
\* the poll returns 0.
C13_NeverStalls ==
    /\ [](waits <= MostWaits)
    /\ []((line.kind = "idle" /\ adbpc = "end")
            => /\ waits = 1
               /\ adb_valid = 0
               /\ elapsed = CommandMicroseconds + StopToStartMicroseconds + ADB_TIMEOUT)
    /\ []((line.kind = "idle" /\ adbpc = "idle" /\ returned # -1) => returned = 0)
    /\ ((adbpc # "idle") ~> (adbpc = "idle"))

\* A poll on a slow line has returned after all 36 waits.
C13_Witness ==
    /\ adbpc = "idle"
    /\ line.kind = "slow"
    /\ waits = 36
    /\ returned = 1

\* C14 (SpecADB): the ADB pin is an input only while ADBRead16 is in its
\* wait loop; whenever ADBRead16 has returned (line 224 next) and whenever
\* ADBPollMouse is not running, the pin is an output.
C14_PinRestored ==
    /\ DDRD1 = 0 => adbpc \in {"waitlow", "waithigh"}
    /\ adbpc \in {"end", "idle", "command", "read"} => DDRD1 = 1

\* ADBRead16 returned on a timeout waiting for the line to go high in bit
\* cell 9; the pin is an output.
C14_Witness ==
    /\ adbpc = "end"
    /\ adb_valid = 0
    /\ adb_i = 9
    /\ Len(LowDuration) = 10
    /\ DDRD1 = 1

\* C15 (SpecADB): interrupts are disabled from before the attention pulse
\* until ADBRead16 has returned, and enabled whenever ADBPollMouse is not
\* running.
C15_InterruptDiscipline ==
    /\ adbpc \in {"command", "read", "waitlow", "waithigh", "end"} => interrupts = 0
    /\ adbpc = "idle" => interrupts = 1

\* ADBPollMouse returned 0 after a timeout in bit cell 9, interrupts enabled.
C15_Witness ==
    /\ adbpc = "idle"
    /\ returned = 0
    /\ waits = 20
    /\ interrupts = 1

\* C16 as stated (SpecADB): the timer time since the start of the attention
\* pulse never exceeds 5000 us.
C16_Original == elapsed <= 5000

\* C16 as amended (SpecADB): the timer time since the start of the attention
\* pulse never exceeds that of the command, the stop-to-start delay and 36
\* waits of 255 us: 11050 us.
C16_BoundedExchange ==
    elapsed <= CommandMicroseconds + StopToStartMicroseconds + MostWaits * ADB_TIMEOUT

\* A poll on a slow line has returned after more than 11 ms.
C16_Witness ==
    /\ adbpc = "idle"
    /\ returned = 1
    /\ elapsed > 11000

\* C17 (SpecADB): no step of the exchange changes AccumulatedX, AccumulatedY,
\* Button1State or Button2State, and when the read timed out the rest of
\* ADBPollMouse leaves them unchanged too and returns 0.
C17_TimeoutNoOp ==
    [][ /\ adbpc # "end" => mouseState' = mouseState
        /\ (adbpc = "end" /\ adb_valid = 0)
              => (mouseState' = mouseState /\ returned' = 0) ]_vars

\* After a poll that read 0x8003, a poll timed out in bit cell 9 on a talking
\* line and returned 0; AccumulatedX is still 3.
C17_Witness ==
    /\ adbpc = "idle"
    /\ returned = 0
    /\ line.kind = "talk"
    /\ adb_i = 9
    /\ AccumulatedX = 3

\* Bit n of a 16-bit value.
BitOf(v, n) == (v \div (2 ^ n)) % 2
PollSucceeds == adbpc = "end" /\ adb_valid = 1

\* C18 (SpecParse): a poll that read register value v leaves Button1State = 1
\* iff bit 15 of v is 0 and Button2State = 1 iff bit 7 of v is 0, whatever
\* the button states were; 0x0000 and 0x8080 leave both accumulators as they
\* were.
C18_ButtonsReplaced ==
    [][ PollSucceeds =>
          /\ Button1State' = (IF BitOf(adb_RegisterValue, 15) = 0 THEN 1 ELSE 0)
          /\ Button2State' = (IF BitOf(adb_RegisterValue, 7) = 0 THEN 1 ELSE 0)
          /\ adb_RegisterValue \in {0, 32896}
                => (AccumulatedX' = AccumulatedX /\ AccumulatedY' = AccumulatedY) ]_vars

\* A poll read 0x8000: button 1 released, button 2 pressed; with the
\* accumulators at their bounds.
C18_Witness ==
    /\ adbpc = "idle"
    /\ returned = 1
    /\ adb_RegisterValue = 32768
    /\ Button1State = 0
    /\ Button2State = 1
    /\ AccumulatedX = 127
    /\ AccumulatedY = -127

\* encode(d) = d & 0x7F, for d in [-64, 63].
EncodeDelta(d) == (d + 128) % 128
ClampAccumulated(a) ==
    IF a > 127 THEN 127 ELSE IF a < -127 THEN -127 ELSE a

\* C19 (SpecParse): for every d in [-64, 63] and every accumulator value a in
\* [-127, 127], a poll that read a register value whose X field is d & 0x7F
\* leaves AccumulatedX = clamp(a + d, -127, 127), and likewise for the Y
\* field and AccumulatedY.
C19_DeltaRoundTrip ==
    [][ PollSucceeds =>
          \A d \in -64 .. 63 :
              /\ adb_RegisterValue % 128 = EncodeDelta(d)
                    => AccumulatedX' = ClampAccumulated(AccumulatedX + d)
              /\ (adb_RegisterValue \div 256) % 128 = EncodeDelta(d)
                    => AccumulatedY' = ClampAccumulated(AccumulatedY + d) ]_vars

\* A poll read 0x807E (X field -2) with AccumulatedX at -126 and AccumulatedY
\* at 126 before: AccumulatedX is -127 after, AccumulatedY (Y field 0) is
\* what it was.
C19_Witness ==
    /\ adbpc = "idle"
    /\ returned = 1
    /\ adb_RegisterValue = 32894
    /\ AccumulatedX = -127
    /\ AccumulatedY = 126

\* C20 (SpecReport): a report built while at most six non-modifier scan codes
\* are marked pressed holds exactly those scan codes, each once, in ascending
\* order from slot 0, has 0 in every slot after them and in the reserved
\* byte, and has modifier bit b set iff scan code 0xE0 + b is marked pressed;
\* no occupied slot holds a modifier scan code or 0.
C20_ReportContents ==
    (callpc = "done" /\ Cardinality(NonModifiersPressed) <= MAX_KEYS_PRESSED) =>
    LET n == Cardinality(NonModifiersPressed)
        kc == KeyboardReportData.KeyCode
    IN  /\ { kc[slot] : slot \in 1 .. n } = NonModifiersPressed
        /\ \A slot \in 1 .. (n - 1) : kc[slot] < kc[slot + 1]
        /\ \A slot \in (n + 1) .. 6 : kc[slot] = 0
        /\ \A slot \in 1 .. n : kc[slot] # 0 /\ kc[slot] \notin 224 .. 231
        /\ KeyboardReportData.Reserved = 0
        /\ \A b \in 0 .. 7 :
              BitOf(KeyboardReportData.Modifier, b) = 1 <=> (224 + b) \in KeyPressed

\* Six letter keys, Left Control and Left Shift are marked: six slots in
\* use, modifier byte 0x03.
C20_Witness ==
    /\ callpc = "done"
    /\ Cardinality(NonModifiersPressed) = 6
    /\ { 224, 225 } \subseteq KeyPressed
    /\ KeyboardReportData.Modifier = 3
    /\ KeyboardReportData.KeyCode[1] > 1
    /\ KeyboardReportData.KeyCode[6] > KeyboardReportData.KeyCode[1]


\* A step in which Mouse_HID_Task is entered: the task is between calls and
\* neither the host nor the bus acts.
MouseTaskEntered == mousepc = "poll" /\ UNCHANGED <<USB_DeviceState, MouseIN>>

\* C21 as stated: every call of Mouse_HID_Task polls the ADB mouse exactly
\* once, so no call ever ends having made no poll.
C21_Original == pollsInCall # 0

\* C21, amended: a call of Mouse_HID_Task entered while the device is
\* configured polls the ADB mouse exactly once, whether or not the mouse IN
\* endpoint is writable, and a call entered while it is not configured
\* returns without polling; the poll count changes at no other step, and a
\* report is written to the endpoint only when its bank is free.
C21_PolledOnceWhenConfigured ==
    [][ /\ MouseTaskEntered =>
              IF USB_DeviceState = "Configured"
              THEN pollsInCall' = 1 /\ mousepc' = "emit"
              ELSE pollsInCall' = 0 /\ mousepc' = "poll"
        /\ ~MouseTaskEntered => pollsInCall' = pollsInCall
        /\ (MouseIN' # MouseIN /\ MouseIN' # NoPacket) =>
              mousepc = "emit" /\ MouseIN = NoPacket ]_vars

\* C21 witness: a call polled once (the movement is in the accumulator) and
\* ended without a report, the endpoint bank still being full.
C21_Witness ==
    /\ mousepc = "poll"
    /\ pollsInCall = 1
    /\ USB_DeviceState = "Configured"
    /\ MouseIN # NoPacket
    /\ AccumulatedX # 0


\* C22: the Connect, Disconnect, ConfigurationChanged and ControlRequest
\* handlers (GetReport and SetReport included), wherever they interrupt the
\* main loop, leave RawSwitchPressed, TotalInRow, TotalInColumn, the ghost
\* flags, KeyPressed, CurrentRow, the accumulators and the button states as
\* they were.
C22_CallbacksLeaveDeviceState ==
    [][UNCHANGED <<matrixVars, CurrentRow, mouseState>>]_vars

\* C22 witness: GetReport ran for both interfaces (both report buffers are
\* cleared) and a SetReport waits for its LED byte with the LEDs changed,
\* while keys are marked and movement is accumulated.
C22_Witness ==
    /\ KeyboardReportData = ZeroKeyboardReport
    /\ MouseReportData = ZeroMouseReport
    /\ usbpc = "wait"
    /\ LEDs = "LEDMASK_USB_ENUMERATING"
    /\ KeyPressed # {}
    /\ CurrentRow = 5
    /\ scanpc = "scan"
    /\ AccumulatedX = ACCUMULATED_MIN


\* C23: every report written to the keyboard IN endpoint is the report
\* built from KeyPressed as the most recent matrix scan left it, also when a
\* GetReport request for interface 0 was served between the build and the
\* write; a held key is not sent as released.
C23_SentIsBuilt ==
    [][ (KeyboardIN' # KeyboardIN /\ KeyboardIN' # NoPacket) =>
            KeyboardIN'[1] = BuildKeyboardReport(KeyPressed) ]_vars


\* C24: after every column sample, whatever the pins read, RowHasGhost and
\* ColumnHasGhost are what CheckForGhosts computes from the current
\* RawSwitchPressed, TotalInRow and TotalInColumn, although it is called
\* only on samples that changed a raw entry; so the sample that sees the
\* release dissolving an L leaves no flag of that L set.
C24_FlagsNeverStale ==
    LET ghosts == CheckForGhosts(RawSwitchPressed, TotalInRow, TotalInColumn)
    IN  /\ RowHasGhost = ghosts.row
        /\ ColumnHasGhost = ghosts.col

\* C24 witness: the sample of (0,1) has just read the release that
\* dissolves the L of (0,1), (1,0), (1,1); Return (158) is still unmarked
\* from the time it was ghosted, and no flag is left.
C24_Witness ==
    /\ JustSampled
    /\ LastSampled = <<0, 1>>
    /\ RawSwitchPressed = { <<1, 0>>, <<1, 1>> }
    /\ 158 \notin KeyPressed
    /\ 24 \in KeyPressed
    /\ \A r \in Rows : RowHasGhost[r] = 0
    /\ \A c \in Columns : ColumnHasGhost[c] = 0


\* C25, for a switch that stays open: with the device configured and the
\* endpoint served, every sweep samples the cell of the switch, and the
\* sample of a cell whose switch is open (a wired cell, not in a ghost-free
\* column) leaves its scan code unmarked in KeyPressed; the mark can change
\* at no other sample, so the switch is marked released within the sweep.
C25_OpenSwitchMarkedReleased ==
    (/\ JustSampled
     /\ LastSampled \notin closed
     /\ ~IS_GHOST_FREE_COLUMN(LastSampled[2])
     /\ ScanCodeAt(LastSampled[1], LastSampled[2]) # 0)
    => ScanCodeAt(LastSampled[1], LastSampled[2]) \notin KeyPressed


\* A row pin drives its line high: output mode with the latch at 1.
DrivenHigh(r) == RowDDR[r] = 1 /\ RowPORT[r] = 1
\* A row pin is an input with its pull-up enabled.
PulledUp(r) == RowDDR[r] = 0 /\ RowPORT[r] = 1
\* A row pin drives its line low.
DrivenLow(r) == RowDDR[r] = 1 /\ RowPORT[r] = 0

C27_OneRowOutput ==
    /\ \A r \in Rows : RowDDR[r] = 1 => (r = CurrentRow /\ scanpc # "idle")
    /\ Cardinality({ r \in Rows : RowDDR[r] = 1 }) <= 1
    /\ scanpc = "idle" => \A r \in Rows : PulledUp(r)

\* C27 witness: the second row of the fourth call, row 7, is being sampled
\* and is the only output, all rows before it having been outputs in turn.
C27_Witness ==
    /\ scanpc = "scan"
    /\ CurrentRow = 7
    /\ i = 1
    /\ CurrentColumn = 5
    /\ RowDDR = [r \in Rows |-> IF r = 7 THEN 1 ELSE 0]
    /\ lastRows = <<0, 1, 2, 3, 4, 5, 6>>

\* The cell a call that began at row start samples at its n-th sample.
NthCell(start, n) ==
    << (start + ((n - 1) \div MATRIX_COLUMNS)) % MATRIX_ROWS, (n - 1) % MATRIX_COLUMNS >>

\* C29: CurrentRow is always in 0..7; a call of KeyboardScanMatrix samples
\* two consecutive rows (modulo 8), each of their 16 columns once and in
\* order, and returns with CurrentRow advanced by 2 modulo 8; any 8
\* consecutive row scans (4 calls) go through every row exactly once.
C29_RoundRobin ==
    /\ CurrentRow \in 0 .. MATRIX_ROWS - 1
    /\ \A n \in 1 .. Len(sampled) : sampled[n] = NthCell(sampled[1][1], n)
    /\ Len(sampled) <= ROWS_PER_REPORT * MATRIX_COLUMNS
    /\ (scanpc = "idle" /\ sampled # << >>) =>
          /\ Len(sampled) = ROWS_PER_REPORT * MATRIX_COLUMNS
          /\ CurrentRow = (sampled[1][1] + ROWS_PER_REPORT) % MATRIX_ROWS
    /\ \A m, n \in 1 .. Len(lastRows) : m # n => lastRows[m] # lastRows[n]
    /\ Len(lastRows) = MATRIX_ROWS => { lastRows[n] : n \in 1 .. MATRIX_ROWS } = Rows

\* C29 witness: the fifth call, which began at row 0 again, has returned;
\* the eight row scans before its return were rows 2..7, 0, 1, and keys
\* were read on the way.
C29_Witness ==
    /\ scanpc = "idle"
    /\ CurrentRow = 2
    /\ Len(sampled) = 32
    /\ sampled[1] = <<0, 0>>
    /\ sampled[32] = <<1, 15>>
    /\ lastRows = <<2, 3, 4, 5, 6, 7, 0, 1>>
    /\ RawSwitchPressed # {}


\* A step that writes a mouse report to the IN endpoint.
MouseReportWritten == MouseIN' # MouseIN /\ MouseIN' # NoPacket

\* C28: the step that writes a mouse report sends X and Y equal to
\* AccumulatedX and AccumulatedY (the int8 cast changes nothing) and leaves
\* both accumulators 0, with no poll in the same step; and as long as no
\* poll was clamped, the X (Y) bytes of all reports written plus the current
\* accumulator add up to the X (Y) deltas of all successful polls.
C28_MovementConserved ==
    /\ [](~saturated => /\ sentX + AccumulatedX = polledX
                        /\ sentY + AccumulatedY = polledY)
    /\ [][ MouseReportWritten =>
              /\ MouseIN'[1].X = AccumulatedX
              /\ MouseIN'[1].Y = AccumulatedY
              /\ AccumulatedX' = 0
              /\ AccumulatedY' = 0
              /\ UNCHANGED <<polledX, polledY, successes, pollsInCall>> ]_vars

\* C28 witness: +3 and +63 were polled and reported as 66, then -2 was
\* polled while the endpoint was still full; nothing was clamped.
C28_Witness ==
    /\ ~saturated
    /\ polledX = 64
    /\ sentX = 66
    /\ AccumulatedX = -2
    /\ polledY = 63
    /\ sentY = 63
    /\ MouseIN # NoPacket
    /\ mousepc = "poll"


\* C30: when ADBRead16 succeeds, 18 low times were measured, each below 255;
\* for every k in 0..15, bit 15 - k of the register value is 1 if the low
\* time of cell k + 1 is below 50 us and 0 if it is 50 us or more; the value
\* has no other bits, so the low times of cell 0 (start bit) and cell 17
\* (stop bit) have no part in it.
C30_Decoding ==
    PollSucceeds =>
        /\ Len(LowDuration) = 18
        /\ \A n \in 1 .. 18 : LowDuration[n] < 255
        /\ adb_RegisterValue \in 0 .. 65535
        /\ \A k \in 0 .. 15 :
              BitOf(adb_RegisterValue, 15 - k) = IF LowDuration[k + 2] < 50 THEN 1 ELSE 0

\* C30 witness: a successful read of 0x8000 in which cell 1 took 49 us (a 1)
\* and cell 16 took 50 us (a 0), while the start bit took 50 us and the stop
\* bit 49 us.
C30_Witness ==
    /\ PollSucceeds
    /\ LowDuration[1] = 50
    /\ LowDuration[2] = 49
    /\ LowDuration[17] = 50
    /\ LowDuration[18] = 49
    /\ adb_RegisterValue = 32768


\* C31: whatever Timer1 holds at the call, also when it wraps through
\* 0xFFFF on the way, DelayMicroseconds(n) with n <= 32767 has returned only
\* when at least 2n ticks passed; in ADBWait, Microseconds is half the ticks
\* that passed up to its last read of the timer, the loop goes on only
\* while that is below 255 us, ADB_TIMEOUT is returned only when 510 ticks
\* or more passed without the line being seen in the desired state, and any
\* other return value is below 255.
C31_WrapTolerant ==
    /\ timerpc = "delayed" =>
          (delay_MicroSeconds <= 32767 /\ ticks >= 2 * delay_MicroSeconds)
    /\ timerpc \in {"wait", "waited"} => wait_Microseconds = seenTicks \div 2
    /\ timerpc = "wait" => seenTicks < 2 * 255
    /\ (timerpc = "waited" /\ wait_returned = 255) =>
          /\ seenTicks >= 2 * 255
          /\ (edgeAt = -1 \/ edgeAt > seenTicks)
    /\ (timerpc = "waited" /\ wait_returned # 255) =>
          /\ wait_returned \in 0 .. 254
          /\ edgeAt # -1
          /\ ticks >= edgeAt

\* C31 witness: DelayMicroseconds(32767) was called one tick before the
\* counter wrapped and has returned, the counter having passed 0xFFFF. 
C31_Witness ==
    /\ timerpc = "delayed"
    /\ delay_MicroSeconds = 32767
    /\ StartTime = 65535
    /\ CurrentTime < StartTime
    /\ ticks = 65534


====
